---- MODULE Spec2Model ----
(***************************************************************************)
(* Document ingestion pipeline of the fund-performance backend:            *)
(*   app/tasks/document_tasks.py      process_document_task                *)
(*   app/services/document_processor.py  DocumentProcessor                 *)
(*   app/services/table_parser.py     TableParser                          *)
(*   app/services/vector_store.py     VectorStore                          *)
(* One ingestion run is a sequence of steps; every step that touches the   *)
(* database, the PDF or a provider either succeeds or raises.              *)
(***************************************************************************)
EXTENDS Integers, Sequences, FiniteSets, TLC

\* ------------------------------------------------------------------ bounds
MaxTables == 2
MaxLLMItems == 1
MaxPages == 1
NumDocs == 2
MaxStoredRows == 2
MaxChunkPages == 2
MaxAmountLen == 4
MaxRecords == 2
MaxIndexedRows == 102

\* ------------------------------------------------------- program constants
CHUNK_SIZE == 1000
CHUNK_OVERLAP == 200

\* Python's None / a present value, kept apart from every value by length.
None == <<>>
Some(v) == <<v>>

Docs == 1..NumDocs
\* upload_document stores the fund of the document; the task gets both ids.
FundOf(d) == 100 + d
\* The documents whose task the dispatcher has delivered to a worker.
Dispatched == {1}

\* ---------------------------------------------------------- table parser
CAPITAL_CALL_KEYWORDS == {"capital call", "call number", "capital contribution", "capital drawdown"}
DISTRIBUTION_KEYWORDS == {"distribution", "return of capital", "dividend", "recallable"}
ADJUSTMENT_KEYWORDS == {"adjustment", "rebalance", "recalled distribution", "capital call adjustment"}

\* Date cells that one of the strptime formats accepts.
ValidDates == {"2023-01-15", "2025-05-01"}

parse_date(cell) ==
  IF cell = None THEN None
  ELSE IF cell[1] \in ValidDates THEN Some(cell[1])
  ELSE None

\* The characters of a cell text; a text that is not listed holds no digit
\* and none of the characters _parse_amount looks at.
Chars(s) ==
  CASE s = "" -> <<>>
    [] s = "$1,000" -> <<"$", "1", ",", "0", "0", "0">>
    [] s = "(500)" -> <<"(", "5", "0", "0", ")">>
    [] s = "$50,000" -> <<"$", "5", "0", ",", "0", "0", "0">>
    [] OTHER -> <<"x">>

DigitValue(c) ==
  CASE c = "0" -> 0 [] c = "1" -> 1 [] c = "2" -> 2 [] c = "3" -> 3
    [] c = "4" -> 4 [] c = "5" -> 5 [] c = "6" -> 6 [] c = "7" -> 7
    [] c = "8" -> 8 [] c = "9" -> 9

IsDigit(c) == c \in {"0", "1", "2", "3", "4", "5", "6", "7", "8", "9"}

\* The number a run of digits denotes.
RECURSIVE DigitsValue(_, _)
DigitsValue(q, acc) ==
  IF q = <<>> THEN acc ELSE DigitsValue(Tail(q), 10 * acc + DigitValue(Head(q)))

\* Decimal(text) for a text of digits and minus signs: an optional sign and
\* at least one digit, else the constructor raises (None).
Decimal(q) ==
  LET digits == IF q # <<>> /\ Head(q) = "-" THEN Tail(q) ELSE q
  IN IF digits = <<>> \/ \E i \in 1..Len(digits) : ~IsDigit(digits[i]) THEN None
     ELSE IF Head(q) = "-" THEN Some(0 - DigitsValue(digits, 0))
     ELSE Some(DigitsValue(digits, 0))

\* Lines 535-556 of _parse_amount on the characters of the stripped text.
ParseAmountChars(amount_str) ==
  IF amount_str = <<>> THEN None
  ELSE LET in_parentheses == Head(amount_str) = "(" /\ amount_str[Len(amount_str)] = ")"
           cleaned == SelectSeq(amount_str, LAMBDA c : c \notin {"$", ",", "(", ")"})
           minus == cleaned # <<>> /\ Head(cleaned) = "-"
           is_negative == in_parentheses \/ minus
           amount == Decimal(IF minus THEN Tail(cleaned) ELSE cleaned)
       IN IF amount = None THEN None
          ELSE IF is_negative THEN Some(0 - amount[1]) ELSE amount

\* Amount cells: the text of the cell and the Decimal it denotes, if any.
AmountValue(s) == ParseAmountChars(Chars(s))

parse_amount(cell) ==
  IF cell = None THEN None ELSE AmountValue(cell[1])

\* A table as extract_tables_from_pdf returns it.  kw is the set of
\* classification keywords that occur in the lower-cased text of the headers
\* and the first five rows; a row holds its date cell and its amount cell, or
\* is too short for the located columns (short = TRUE, row[idx] raises).
TableTexts ==
  { {"capital call"}, {"distribution"}, {"adjustment"}, {},
    {"capital call", "distribution"} }

GoodRow == [date |-> Some("2023-01-15"), amount |-> Some("$1,000"), short |-> FALSE]
BadDateRow == [date |-> Some("n/a"), amount |-> Some("(500)"), short |-> FALSE]
BadAmountRow == [date |-> Some("2023-01-15"), amount |-> Some("n/a"), short |-> FALSE]
ShortRow == [date |-> None, amount |-> None, short |-> TRUE]

SeqsUpTo(S, lo, hi) == UNION { [1..n -> S] : n \in lo..hi }

\* extract_tables_from_pdf keeps a table only when it has a header and a row.
RowLists ==
  { <<GoodRow>>, <<GoodRow, GoodRow>>, <<BadDateRow>>,
    <<GoodRow, BadAmountRow>>, <<ShortRow, GoodRow>> }
TableInputs == [kw : TableTexts, rows : RowLists]
TableLists ==
  { [i \in 1..Len(ts) |-> [page |-> i, kw |-> ts[i].kw, rows |-> ts[i].rows]] :
      ts \in SeqsUpTo(TableInputs, 0, MaxTables) }

\* The classifier looks for the distribution keywords first.
classify_distributions_first(table_info) ==
  IF table_info.kw \cap DISTRIBUTION_KEYWORDS # {} THEN Some("distributions")
  ELSE IF table_info.kw \cap CAPITAL_CALL_KEYWORDS # {} THEN Some("capital_calls")
  ELSE IF table_info.kw \cap ADJUSTMENT_KEYWORDS # {} THEN Some("adjustments")
  ELSE None

classify_table_type(table_info) ==
  IF table_info.kw \cap CAPITAL_CALL_KEYWORDS # {} THEN Some("capital_calls")
  ELSE IF table_info.kw \cap DISTRIBUTION_KEYWORDS # {} THEN Some("distributions")
  ELSE IF table_info.kw \cap ADJUSTMENT_KEYWORDS # {} THEN Some("adjustments")
  ELSE None

\* A row is kept as soon as its date parses.
ParseRow_date_only(row, kind) ==
  IF row.short THEN <<>>
  ELSE LET dt == parse_date(row.date)
           am == parse_amount(row.amount)
       IN IF dt # None
          THEN << [kind |-> kind, date |-> dt, amount |-> am] >>
          ELSE <<>>

\* One row of parse_capital_call_table / parse_distribution_table /
\* parse_adjustment_table: the record when date and amount both parse, else
\* nothing (a short row raises inside the row's try and is skipped).
ParseRow(row, kind) ==
  IF row.short THEN <<>>
  ELSE LET dt == parse_date(row.date)
           am == parse_amount(row.amount)
       IN IF dt # None /\ am # None
          THEN << [kind |-> kind, date |-> dt, amount |-> am] >>
          ELSE <<>>

RECURSIVE ParseRows(_, _)
ParseRows(rows, kind) ==
  IF rows = <<>> THEN <<>>
  ELSE ParseRow(Head(rows), kind) \o ParseRows(Tail(rows), kind)

parse_table(table_info, kind) == ParseRows(table_info.rows, kind)

\* validate_and_clean_data: keeps the entries that have a date and an amount
\* (a non-positive amount is only logged).
HasDateAndAmount(entry) == entry.date # None /\ entry.amount # None

\* The validator checks the amount alone.
validate_amount_only(data, table_type) ==
  SelectSeq(data, LAMBDA entry : entry.amount # None)

\* The validator drops the entries whose amount is not positive.
validate_positive_only(data, table_type) ==
  SelectSeq(data, LAMBDA entry :
    entry.date # None /\ entry.amount # None /\ entry.amount[1] > 0)

validate_and_clean_data(data, table_type) == SelectSeq(data, HasDateAndAmount)

\* ------------------------------------------------------------ LLM fallback
\* One item of the JSON reply: its "date" string and its "amount" (a number,
\* or null, for which Decimal(str(None)) raises and the item is skipped).
LLMItems ==
  { [date |-> Some("2025-05-01"), amount |-> Some(5000)],
    [date |-> Some("n/a"), amount |-> Some(5000)],
    [date |-> Some("2025-05-01"), amount |-> None] }
LLMItemLists == SeqsUpTo(LLMItems, 0, MaxLLMItems)
LLMReplies == [capital_calls : LLMItemLists, distributions : LLMItemLists]

EmptyLLMData == [capital_calls |-> <<>>, distributions |-> <<>>, adjustments |-> <<>>]

\* The conversion loop of extract_data_from_text: the date goes through
\* _parse_date (None when it does not parse), the amount through Decimal.
ConvertItem(item, kind) ==
  IF item.amount = None THEN <<>>
  ELSE << [kind |-> kind, date |-> parse_date(item.date), amount |-> item.amount] >>

RECURSIVE ConvertItems(_, _)
ConvertItems(items, kind) ==
  IF items = <<>> THEN <<>>
  ELSE ConvertItem(Head(items), kind) \o ConvertItems(Tail(items), kind)

\* What the provider call ends in.
LLMOutcomes == {"no_text", "call_raises", "bad_json", "ok"}

\* The reply is converted whatever the call ran into.
extract_ignores_outcome(client, outcome, reply) ==
  IF ~client THEN EmptyLLMData
  ELSE [capital_calls |-> ConvertItems(reply.capital_calls, "capital_calls"),
        distributions |-> ConvertItems(reply.distributions, "distributions"),
        adjustments |-> <<>>]

extract_data_from_text(client, outcome, reply) ==
  IF ~client THEN EmptyLLMData
  ELSE IF outcome # "ok" THEN EmptyLLMData
  ELSE [capital_calls |-> ConvertItems(reply.capital_calls, "capital_calls"),
        distributions |-> ConvertItems(reply.distributions, "distributions"),
        adjustments |-> <<>>]

\* ----------------------------------------------------------------- chunker
\* A sentence of _split_into_sentences: its page and its position in the
\* page, which tell it from every other sentence of the document, and its
\* length in characters.
Sentences(page_num, lens) ==
  [i \in 1..Len(lens) |-> [page |-> page_num, id |-> i, len |-> lens[i]]]

\* The text of a page, as the lengths of its sentences (a page is kept only
\* when its text is not blank, so it has a sentence).
PageTexts == { <<150>>, <<900, 150>>, <<150, 900>> }

\* The list _extract_text_content returns for the page texts ps.
Pages(ps) == [i \in 1..Len(ps) |-> [page |-> i, sentences |-> Sentences(i, ps[i])]]

PageLists == { Pages(ps) : ps \in SeqsUpTo(PageTexts, 0, MaxPages) }

\* Sum of len(sent) over the sentences of q.
RECURSIVE SumSeq(_)
SumSeq(q) == IF q = <<>> THEN 0 ELSE Head(q).len + SumSeq(Tail(q))

\* len(' '.join(current_chunk))
JoinedLen(cur) == IF cur = <<>> THEN 0 ELSE SumSeq(cur) + Len(cur) - 1

\* Every chunk gets the index 0.
MakeChunk_index_zero(cur, page_num, chunk_index) ==
  [text |-> cur, page |-> page_num, chunk_index |-> 0,
   char_count |-> JoinedLen(cur)]

MakeChunk(cur, page_num, chunk_index) ==
  [text |-> cur, page |-> page_num, chunk_index |-> chunk_index,
   char_count |-> JoinedLen(cur)]

\* The backward walk that keeps the last sentences fitting the overlap.
RECURSIVE OverlapWalk(_, _, _, _, _)
OverlapWalk(cur, i, overlap_sentences, overlap_length, chunk_overlap) ==
  IF i = 0 THEN overlap_sentences
  ELSE IF overlap_length + cur[i].len <= chunk_overlap
       THEN OverlapWalk(cur, i - 1, <<cur[i]>> \o overlap_sentences,
                        overlap_length + cur[i].len, chunk_overlap)
       ELSE overlap_sentences

\* The next chunk starts empty.
OverlapSentences_none(cur, chunk_overlap) == <<>>

\* Only the last sentence is carried over, when it fits.
OverlapSentences_last_only(cur, chunk_overlap) ==
  IF cur[Len(cur)].len <= chunk_overlap THEN <<cur[Len(cur)]>> ELSE <<>>

OverlapSentences(cur, chunk_overlap) ==
  OverlapWalk(cur, Len(cur), <<>>, 0, chunk_overlap)

RECURSIVE ChunkLoop(_, _, _, _, _, _, _, _, _)
ChunkLoop(sentences, i, out, cur, cur_len, chunk_index, page_num, chunk_size, chunk_overlap) ==
  IF i > Len(sentences)
  THEN IF cur # <<>> THEN Append(out, MakeChunk(cur, page_num, chunk_index)) ELSE out
  ELSE LET s == sentences[i] IN
       IF cur_len + s.len > chunk_size /\ cur # <<>>
       THEN LET ov == OverlapSentences(cur, chunk_overlap) IN
            ChunkLoop(sentences, i + 1,
                      Append(out, MakeChunk(cur, page_num, chunk_index)),
                      Append(ov, s), SumSeq(ov) + s.len, chunk_index + 1,
                      page_num, chunk_size, chunk_overlap)
       ELSE ChunkLoop(sentences, i + 1, out, Append(cur, s), cur_len + s.len,
                      chunk_index, page_num, chunk_size, chunk_overlap)

\* The sentence loop starts at the second sentence of the page.
ChunkPage_skips_first(page_data, chunk_size, chunk_overlap) ==
  ChunkLoop(page_data.sentences, 2, <<>>, <<>>, 0, 0, page_data.page,
            chunk_size, chunk_overlap)

ChunkPage(page_data, chunk_size, chunk_overlap) ==
  ChunkLoop(page_data.sentences, 1, <<>>, <<>>, 0, 0, page_data.page,
            chunk_size, chunk_overlap)

RECURSIVE ChunkPages(_, _, _)
ChunkPages(text_content, chunk_size, chunk_overlap) ==
  IF text_content = <<>> THEN <<>>
  ELSE ChunkPage(Head(text_content), chunk_size, chunk_overlap)
         \o ChunkPages(Tail(text_content), chunk_size, chunk_overlap)

\* _chunk_text under the settings of config.py.
chunk_text(text_content) == ChunkPages(text_content, CHUNK_SIZE, CHUNK_OVERLAP)

\* ------------------------------------------------- vector store schema
\* A provider configuration s tells whether settings.OPENAI_API_KEY is set.
\* The length of the vectors the configured provider returns:
\* text-embedding-3-small with a key, all-MiniLM-L6-v2 without.
EmbeddingDimension(s) == IF s.OPENAI_API_KEY THEN 1536 ELSE 384

\* Line 52: the dimension _ensure_extension writes into CREATE TABLE.
SchemaDimension(s) == IF s.OPENAI_API_KEY THEN 1536 ELSE 384

\* The database before the first initialization: no document_embeddings
\* table, no index on it.
EmptySchema == [table |-> None, index |-> FALSE]

\* The index is created when it is missing and never dropped.
ensure_extension_keeps_index(sch, s, count) ==
  [table |-> IF sch.table = None THEN Some(SchemaDimension(s)) ELSE sch.table,
   index |-> sch.index \/ count > 100]

\* _ensure_extension when every statement succeeds and the transaction is
\* committed: DROP INDEX IF EXISTS, CREATE TABLE IF NOT EXISTS at the
\* configured dimension (an existing table keeps its column), then CREATE
\* INDEX when the table holds more than 100 rows.
ensure_extension(sch, s, count) ==
  [table |-> IF sch.table = None THEN Some(SchemaDimension(s)) ELSE sch.table,
   index |-> count > 100]

\* The INSERT of add_document is accepted: the table exists and its
\* embedding column has the length of the vector _get_embedding returned.
CanInsert(sch, s) == sch.table = Some(EmbeddingDimension(s))

\* =================================================================== state
VARIABLES
  pc,             \* position of each document's task
  status,         \* documents.parsing_status, as committed
  error_message,  \* documents.error_message, as committed
  status_log,     \* the status values committed for the document, in order
  llm_client,     \* TableParser.llm_client is set
  stats,          \* the stats dictionary of process_document
  tables,         \* the tables the table loop has still to visit
  tables_done,    \* iterations of the table loop that have finished
  llm_calls,      \* calls of extract_data_from_text made by the run
  llm_outcome,    \* what the call of extract_data_from_text ran into
  llm_data,       \* the dictionary extract_data_from_text returned
  text_content,   \* the pages _extract_text_content returned
  chunks,         \* the list _chunk_text returned
  next_chunk,     \* position of the chunk loop in chunks
  exc,            \* the exception being handled, if any
  result,         \* what process_document returned
  txns,           \* capital_calls / distributions / adjustments rows
  rows,           \* document_embeddings rows
  schema,         \* the document_embeddings table's embedding dimension, and its index
  settings,       \* the provider configuration (app.core.config.settings)
  call            \* the last call made on a service from outside a run, if any

vars ==
  << pc, status, error_message, status_log, llm_client, stats, tables,
     tables_done, llm_calls, llm_outcome, llm_data, text_content, chunks, next_chunk, exc,
     result, txns, rows, schema, settings, call >>

EmptyStats ==
  [capital_calls |-> 0, distributions |-> 0, adjustments |-> 0,
   text_chunks |-> 0, tables_found |-> 0, pages_processed |-> 0,
   errors |-> <<>>]

Init ==
  /\ pc = [d \in Docs |-> IF d \in Dispatched THEN "queued" ELSE "idle"]
  /\ status = [d \in Docs |-> "pending"]
  /\ error_message = [d \in Docs |-> None]
  /\ status_log = [d \in Docs |-> <<>>]
  /\ llm_client = [d \in Docs |-> FALSE]
  /\ stats = [d \in Docs |-> EmptyStats]
  /\ tables = [d \in Docs |-> <<>>]
  /\ tables_done = [d \in Docs |-> 0]
  /\ llm_calls = [d \in Docs |-> 0]
  /\ llm_outcome = [d \in Docs |-> None]
  /\ llm_data = [d \in Docs |-> EmptyLLMData]
  /\ text_content = [d \in Docs |-> <<>>]
  /\ chunks = [d \in Docs |-> <<>>]
  /\ next_chunk = [d \in Docs |-> 1]
  /\ exc = [d \in Docs |-> None]
  /\ result = [d \in Docs |-> None]
  /\ txns = <<>>
  /\ rows = <<>>
  /\ schema = EmptySchema
  /\ settings = [OPENAI_API_KEY |-> FALSE]
  /\ call = None

\* ---------------------------------------------------------- status writes
\* document.parsing_status = st; document.error_message = msg; db.commit()
CommitStatus(d, st, msg) ==
  /\ status' = [status EXCEPT ![d] = st]
  /\ error_message' = [error_message EXCEPT ![d] = msg]
  /\ status_log' = [status_log EXCEPT ![d] = Append(@, st)]

\* _update_document_status: a failure of the query or of the commit is
\* logged, rolled back and swallowed.
update_document_status(d, st, msg, ok) ==
  IF ok THEN CommitStatus(d, st, msg)
  ELSE UNCHANGED << status, error_message, status_log >>

FatalMessage(e) == [text |-> "Fatal error processing document", exc |-> e]
TableMessage(page, e) == [text |-> "Error processing table on page", page |-> page, exc |-> e]
LLMMessage(e) == [text |-> "Error in LLM-based text extraction", exc |-> e]

\* The handler logs the message and does not keep it.
AddError_only_logged(st, msg) == st

\* stats['errors'].append(error_msg)
AddError(st, msg) == [st EXCEPT !.errors = Append(@, msg)]

\* ------------------------------------------------- process_document_task
\* Lines 33-36: mark the document as processing.
TaskStart(d) ==
  /\ pc[d] = "queued"
  /\ \E ok \in BOOLEAN :
       IF ok
       THEN /\ CommitStatus(d, "processing", error_message[d])
            /\ pc' = [pc EXCEPT ![d] = "construct"]
            /\ UNCHANGED exc
       ELSE /\ pc' = [pc EXCEPT ![d] = "task_except"]
            /\ exc' = [exc EXCEPT ![d] = Some("status_write")]
            /\ UNCHANGED << status, error_message, status_log >>
  /\ UNCHANGED << llm_client, schema, stats, tables, tables_done, llm_calls, llm_outcome, llm_data,
                  text_content, chunks, next_chunk, result, txns, rows >>

\* Lines 39-43: DocumentProcessor(db) builds the TableParser (the LLM client
\* may stay unset) and the VectorStore (loading the embedding model may
\* raise; _ensure_extension then initializes the schema, or fails, rolls
\* back and is only logged), then asyncio.run starts process_document with
\* fresh stats.
Construct(d) ==
  /\ pc[d] = "construct"
  /\ \E ok \in BOOLEAN, client \in BOOLEAN :
       IF ok
       THEN /\ pc' = [pc EXCEPT ![d] = "extract_tables"]
            /\ llm_client' = [llm_client EXCEPT ![d] = client]
            /\ stats' = [stats EXCEPT ![d] = EmptyStats]
            /\ \E ensured \in BOOLEAN :
                 schema' = IF ensured THEN ensure_extension(schema, settings, Len(rows))
                           ELSE schema
            /\ UNCHANGED exc
       ELSE /\ pc' = [pc EXCEPT ![d] = "task_except"]
            /\ exc' = [exc EXCEPT ![d] = Some("construct")]
            /\ UNCHANGED << llm_client, stats, schema >>
  /\ UNCHANGED << status, error_message, status_log, tables, tables_done,
                  llm_calls, llm_outcome, llm_data, text_content, chunks, next_chunk,
                  result, txns, rows >>

\* Lines 48-62: the task's handler writes failed (its own failure is only
\* logged) and re-raises.
TaskExcept(d) ==
  /\ pc[d] = "task_except"
  /\ \E ok \in BOOLEAN :
       IF ok
       THEN CommitStatus(d, "failed", Some([text |-> "str(e)", exc |-> exc[d][1]]))
       ELSE UNCHANGED << status, error_message, status_log >>
  /\ pc' = [pc EXCEPT ![d] = "raised"]
  /\ UNCHANGED << llm_client, schema, stats, tables, tables_done, llm_calls, llm_outcome, llm_data,
                  text_content, chunks, next_chunk, exc, result, txns, rows >>

\* ------------------------------------------------------- process_document
\* Step 1: extract_tables_from_pdf returns the tables of the document, one
\* of lists, or raises.
ExtractTablesFrom(d, lists) ==
  /\ pc[d] = "extract_tables"
  /\ \/ \E ts \in lists :
          /\ tables' = [tables EXCEPT ![d] = ts]
          /\ stats' = [stats EXCEPT ![d].tables_found = Len(ts)]
          /\ pc' = [pc EXCEPT ![d] = "tables"]
          /\ UNCHANGED exc
     \/ /\ pc' = [pc EXCEPT ![d] = "fatal"]
        /\ exc' = [exc EXCEPT ![d] = Some("extract_tables")]
        /\ UNCHANGED << tables, stats >>
  /\ UNCHANGED << status, error_message, status_log, llm_client, schema, tables_done,
                  llm_calls, llm_outcome, llm_data, text_content, chunks, next_chunk,
                  result, txns, rows >>

ExtractTables(d) == ExtractTablesFrom(d, TableLists)

\* _save_capital_calls / _save_distributions / _save_adjustments: one row
\* per record, all committed together.
StoredRecords(records, fund_id) ==
  [i \in 1..Len(records) |->
     [fund_id |-> fund_id, kind |-> records[i].kind,
      date |-> records[i].date, amount |-> records[i].amount]]

\* A saved batch counts as one, whatever its size.
CountField_per_batch(kind, st, n) ==
  CASE kind = "capital_calls" -> [st EXCEPT !.capital_calls = @ + 1]
    [] kind = "distributions" -> [st EXCEPT !.distributions = @ + 1]
    [] kind = "adjustments" -> [st EXCEPT !.adjustments = @ + 1]

CountField(kind, st, n) ==
  CASE kind = "capital_calls" -> [st EXCEPT !.capital_calls = @ + n]
    [] kind = "distributions" -> [st EXCEPT !.distributions = @ + n]
    [] kind = "adjustments" -> [st EXCEPT !.adjustments = @ + n]

\* The step of a table's iteration that raises, if any.
TableFaults == {"none", "classify", "parse", "save"}

\* Step 2: the try body of one iteration of the table loop (lines 67-92):
\* classify, parse, validate, save and count, or raise on the way.
ProcessTable(d) ==
  /\ pc[d] = "tables"
  /\ tables[d] # <<>>
  /\ LET table_info == Head(tables[d])
         table_type == classify_table_type(table_info)
     IN \E fault \in TableFaults :
          IF fault = "classify" \/ (table_type # None /\ fault # "none")
          THEN /\ pc' = [pc EXCEPT ![d] = "table_except"]
               /\ exc' = [exc EXCEPT ![d] = Some(fault)]
               /\ UNCHANGED << stats, txns, tables, tables_done >>
          ELSE /\ IF table_type = None
                  THEN \* not classified: continue
                       UNCHANGED << stats, txns >>
                  ELSE LET parsed_data == parse_table(table_info, table_type[1])
                           validated_data ==
                             validate_and_clean_data(parsed_data, table_type[1])
                       IN /\ txns' = txns \o StoredRecords(validated_data, FundOf(d))
                          /\ stats' = [stats EXCEPT ![d] =
                               CountField(table_type[1], @, Len(validated_data))]
               /\ tables' = [tables EXCEPT ![d] = Tail(@)]
               /\ tables_done' = [tables_done EXCEPT ![d] = @ + 1]
               /\ UNCHANGED << pc, exc >>
  /\ UNCHANGED << status, error_message, status_log, llm_client, schema, llm_calls, llm_outcome,
                  llm_data, text_content, chunks, next_chunk, result, rows >>

\* The handler of one iteration (lines 94-97); resume is where control goes
\* once the error is recorded.
TableHandlerTo(d, resume) ==
  /\ pc[d] = "table_except"
  /\ stats' = [stats EXCEPT ![d] =
                 AddError(@, TableMessage(Head(tables[d]).page, exc[d][1]))]
  /\ IF resume = "tables"
     THEN /\ tables' = [tables EXCEPT ![d] = Tail(@)]
          /\ tables_done' = [tables_done EXCEPT ![d] = @ + 1]
          /\ exc' = [exc EXCEPT ![d] = None]
     ELSE UNCHANGED << tables, tables_done, exc >>
  /\ pc' = [pc EXCEPT ![d] = resume]
  /\ UNCHANGED << status, error_message, status_log, llm_client, schema, llm_calls, llm_outcome,
                  llm_data, text_content, chunks, next_chunk, result, txns, rows >>

\* The handler re-raises: the exception leaves the loop.
TableHandler_reraises(d) == TableHandlerTo(d, "fatal")

\* The handler sits inside the loop, which goes on with the next table.
TableHandler(d) == TableHandlerTo(d, "tables")

\* Only a document without any table triggers the fallback.
NeedsFallback_no_tables(st) == st.tables_found = 0

\* One zero count is enough to trigger the fallback.
NeedsFallback_either_zero(st) ==
  st.tables_found = 0 \/ st.capital_calls = 0 \/ st.distributions = 0

\* Line 100: the condition under which the fallback runs.
NeedsFallback(st) ==
  st.tables_found = 0 \/ (st.capital_calls = 0 /\ st.distributions = 0)

\* Step 2.5, lines 100-103: after the last table either the fallback is
\* skipped or extract_data_from_text is called; the call never raises.
FallbackFrom(d, outcomes, replies) ==
  /\ pc[d] = "tables"
  /\ tables[d] = <<>>
  /\ IF NeedsFallback(stats[d])
     THEN /\ \E outcome \in outcomes, reply \in replies :
               /\ llm_data' = [llm_data EXCEPT ![d] =
                                 extract_data_from_text(llm_client[d], outcome, reply)]
               /\ llm_outcome' = [llm_outcome EXCEPT ![d] =
                                    IF llm_client[d] THEN Some(outcome)
                                    ELSE Some("no_client")]
          /\ llm_calls' = [llm_calls EXCEPT ![d] = @ + 1]
          /\ pc' = [pc EXCEPT ![d] = "llm_save_calls"]
     ELSE /\ pc' = [pc EXCEPT ![d] = "extract_text"]
          /\ UNCHANGED << llm_data, llm_calls, llm_outcome >>
  /\ UNCHANGED << status, error_message, status_log, llm_client, schema, stats, tables,
                  tables_done, text_content, chunks, next_chunk, exc, result,
                  txns, rows >>

Fallback(d) == FallbackFrom(d, LLMOutcomes, LLMReplies)

\* Lines 108-114 and 117-123: validate, save and count one list of the
\* fallback, or raise.
LLMSave(d, here, kind, records, after) ==
  /\ pc[d] = here
  /\ IF records = <<>>
     THEN /\ pc' = [pc EXCEPT ![d] = after]
          /\ UNCHANGED << stats, txns, exc >>
     ELSE LET validated == validate_and_clean_data(records, kind)
          IN \E ok \in BOOLEAN :
               IF ok
               THEN /\ txns' = txns \o StoredRecords(validated, FundOf(d))
                    /\ stats' = [stats EXCEPT ![d] = CountField(kind, @, Len(validated))]
                    /\ pc' = [pc EXCEPT ![d] = after]
                    /\ UNCHANGED exc
               ELSE /\ pc' = [pc EXCEPT ![d] = "llm_except"]
                    /\ exc' = [exc EXCEPT ![d] = Some("save")]
                    /\ UNCHANGED << stats, txns >>
  /\ llm_data' = [llm_data EXCEPT ![d] = IF pc'[d] = "extract_text" THEN EmptyLLMData ELSE @]
  /\ UNCHANGED << status, error_message, status_log, llm_client, schema, tables,
                  tables_done, llm_calls, llm_outcome, text_content, chunks, next_chunk,
                  result, rows >>

LLMSaveCalls(d) ==
  LLMSave(d, "llm_save_calls", "capital_calls", llm_data[d].capital_calls,
          "llm_save_dists")

LLMSaveDists(d) ==
  LLMSave(d, "llm_save_dists", "distributions", llm_data[d].distributions,
          "extract_text")

\* The handler of the fallback block (lines 127-130).
LLMHandler(d) ==
  /\ pc[d] = "llm_except"
  /\ stats' = [stats EXCEPT ![d] = AddError(@, LLMMessage(exc[d][1]))]
  /\ exc' = [exc EXCEPT ![d] = None]
  /\ llm_data' = [llm_data EXCEPT ![d] = EmptyLLMData]
  /\ pc' = [pc EXCEPT ![d] = "extract_text"]
  /\ UNCHANGED << status, error_message, status_log, llm_client, schema, tables,
                  tables_done, llm_calls, llm_outcome, text_content, chunks, next_chunk,
                  result, txns, rows >>

\* Step 3: _extract_text_content returns the pages that have text, one of
\* lists, or raises.
ExtractTextFrom(d, lists) ==
  /\ pc[d] = "extract_text"
  /\ \/ \E pages \in lists :
          /\ text_content' = [text_content EXCEPT ![d] = pages]
          /\ stats' = [stats EXCEPT ![d].pages_processed = Len(pages)]
          /\ pc' = [pc EXCEPT ![d] = "chunk_text"]
          /\ UNCHANGED exc
     \/ /\ pc' = [pc EXCEPT ![d] = "fatal"]
        /\ exc' = [exc EXCEPT ![d] = Some("extract_text")]
        /\ UNCHANGED << text_content, stats >>
  /\ UNCHANGED << status, error_message, status_log, llm_client, schema, tables,
                  tables_done, llm_calls, llm_outcome, llm_data, chunks, next_chunk,
                  result, txns, rows >>

ExtractText(d) == ExtractTextFrom(d, PageLists)

\* Step 4: _chunk_text.
ChunkText(d) ==
  /\ pc[d] = "chunk_text"
  /\ \/ /\ chunks' = [chunks EXCEPT ![d] = chunk_text(text_content[d])]
        /\ stats' = [stats EXCEPT ![d].text_chunks = Len(chunk_text(text_content[d]))]
        /\ pc' = [pc EXCEPT ![d] = "add_chunks"]
        /\ UNCHANGED exc
     \/ /\ pc' = [pc EXCEPT ![d] = "fatal"]
        /\ exc' = [exc EXCEPT ![d] = Some("chunk_text")]
        /\ UNCHANGED << chunks, stats >>
  /\ UNCHANGED << status, error_message, status_log, llm_client, schema, tables,
                  tables_done, llm_calls, llm_outcome, llm_data, text_content, next_chunk,
                  result, txns, rows >>

\* The row add_document inserts and commits (vector_store.py lines 113-131).
EmbeddingRow(id, content, metadata) ==
  [id |-> id, document_id |-> metadata.document_id, fund_id |-> metadata.fund_id,
   content |-> content, metadata |-> metadata]

\* The next value of the SERIAL key: above every id in the table.
MaxId(rs) ==
  IF rs = <<>> THEN 0
  ELSE CHOOSE id \in { rs[i].id : i \in 1..Len(rs) } : \A i \in 1..Len(rs) : rs[i].id <= id

ChunkMetadata(d, chunk) ==
  [document_id |-> d, fund_id |-> FundOf(d), page |-> chunk.page,
   chunk_index |-> chunk.chunk_index, source |-> d]

\* The rollback takes the rows the run committed before with it.
RowsAfterRollback_whole_run(rs, d) == SelectSeq(rs, LAMBDA r : r.document_id # d)

\* The rollback takes the rows the other runs committed with it.
RowsAfterRollback_other_runs(rs, d) == SelectSeq(rs, LAMBDA r : r.document_id = d)

\* What add_document's handler leaves of the table when the insert raises:
\* the rollback undoes the uncommitted insert only.
RowsAfterRollback(rs, d) == rs

\* add_document logs a failed insert and returns: the chunk loop goes on.
add_document_swallows(d, chunk, ok) ==
  /\ rows' = IF ok
             THEN Append(rows, [id |-> Len(rows) + 1, document_id |-> d,
                                fund_id |-> FundOf(d), content |-> chunk.text,
                                metadata |-> [document_id |-> d, fund_id |-> FundOf(d),
                                              page |-> chunk.page,
                                              chunk_index |-> chunk.chunk_index,
                                              source |-> d]])
             ELSE rows
  /\ next_chunk' = [next_chunk EXCEPT ![d] = @ + 1]
  /\ UNCHANGED << pc, exc >>

\* add_document: the row is inserted and committed, or the insert raises,
\* is rolled back and the exception goes on to the caller's handler.
add_document(d, chunk, ok) ==
  IF ok
  THEN /\ rows' = Append(rows, EmbeddingRow(MaxId(rows) + 1, chunk.text, ChunkMetadata(d, chunk)))
       /\ next_chunk' = [next_chunk EXCEPT ![d] = @ + 1]
       /\ UNCHANGED << pc, exc >>
  ELSE /\ rows' = RowsAfterRollback(rows, d)
       /\ pc' = [pc EXCEPT ![d] = "fatal"]
       /\ exc' = [exc EXCEPT ![d] = Some("add_document")]
       /\ UNCHANGED next_chunk

\* Step 5: one iteration of the chunk loop (lines 142-152).
AddChunk(d) ==
  /\ pc[d] = "add_chunks"
  /\ next_chunk[d] <= Len(chunks[d])
  /\ \E ok \in BOOLEAN :
       /\ ok => CanInsert(schema, settings)
       /\ add_document(d, chunks[d][next_chunk[d]], ok)
  /\ UNCHANGED << status, error_message, status_log, llm_client, schema, stats, tables,
                  tables_done, llm_calls, llm_outcome, llm_data, text_content, chunks,
                  result, txns >>

\* A statement after the status update raises inside the try block.
UpdateCompleted_then_raises(d) ==
  /\ pc[d] = "add_chunks"
  /\ next_chunk[d] > Len(chunks[d])
  /\ \E ok \in BOOLEAN : update_document_status(d, "completed", None, ok)
  /\ exc' = [exc EXCEPT ![d] = Some("after_status")]
  /\ pc' = [pc EXCEPT ![d] = "fatal"]
  /\ UNCHANGED << llm_client, schema, stats, tables, tables_done, llm_calls, llm_outcome, llm_data,
                  text_content, chunks, next_chunk, result, txns, rows >>

\* Step 6 (lines 155-161): the status becomes completed and the run returns.
UpdateCompleted(d) ==
  /\ pc[d] = "add_chunks"
  /\ next_chunk[d] > Len(chunks[d])
  /\ \E ok \in BOOLEAN : update_document_status(d, "completed", None, ok)
  /\ result' = [result EXCEPT ![d] =
                  Some([success |-> TRUE, stats |-> stats[d], error |-> None])]
  /\ pc' = [pc EXCEPT ![d] = "returned"]
  /\ UNCHANGED << llm_client, schema, stats, tables, tables_done, llm_calls, llm_outcome, llm_data,
                  text_content, chunks, next_chunk, exc, txns, rows >>

\* Lines 163-175: the handler of process_document.
FatalHandler(d) ==
  /\ pc[d] = "fatal"
  /\ LET error_msg == FatalMessage(exc[d][1])
     IN /\ stats' = [stats EXCEPT ![d] = AddError(@, error_msg)]
        /\ \E ok \in BOOLEAN :
             update_document_status(d, "failed", Some(error_msg), ok)
        /\ result' = [result EXCEPT ![d] =
                        Some([success |-> FALSE, stats |-> stats'[d],
                              error |-> Some(error_msg)])]
  /\ pc' = [pc EXCEPT ![d] = "returned"]
  /\ UNCHANGED << llm_client, schema, tables, tables_done, llm_calls, llm_outcome, llm_data,
                  text_content, chunks, next_chunk, exc, txns, rows >>

\* The steps of a run that take nothing from the document.
InnerStep(d) ==
    \/ TaskStart(d)
    \/ Construct(d)
    \/ TaskExcept(d)
    \/ ProcessTable(d)
    \/ TableHandler(d)
    \/ LLMSaveCalls(d)
    \/ LLMSaveDists(d)
    \/ LLMHandler(d)
    \/ ChunkText(d)
    \/ AddChunk(d)
    \/ UpdateCompleted(d)
    \/ FatalHandler(d)

\* Every step of a run but the table extraction.
RunStep(d) == InnerStep(d) \/ Fallback(d) \/ ExtractText(d)

Next ==
  /\ \E d \in Docs : ExtractTables(d) \/ RunStep(d)
  /\ UNCHANGED << call, settings >>

Spec == Init /\ [][Next]_vars

\* The runs over one document: a single table headed as a capital-call
\* table, with two valid rows, and no other table.
CapitalCallDocument ==
  << [page |-> 1, kw |-> {"capital call"}, rows |-> <<GoodRow, GoodRow>>] >>

ExtractCapitalCallDocument(d) == ExtractTablesFrom(d, {CapitalCallDocument})

NextCapitalCallDocument ==
  /\ \E d \in Docs : ExtractCapitalCallDocument(d) \/ RunStep(d)
  /\ UNCHANGED << call, settings >>

SpecCapitalCallDocument == Init /\ [][NextCapitalCallDocument]_vars

\* Two documents uploaded and dispatched, whose tasks run on two workers:
\* each task has its own session on the shared database.
InitTwoRuns ==
  /\ pc = [d \in Docs |-> IF d \in {1, 2} THEN "queued" ELSE "idle"]
  /\ status = [d \in Docs |-> "pending"]
  /\ error_message = [d \in Docs |-> None]
  /\ status_log = [d \in Docs |-> <<>>]
  /\ llm_client = [d \in Docs |-> FALSE]
  /\ stats = [d \in Docs |-> EmptyStats]
  /\ tables = [d \in Docs |-> <<>>]
  /\ tables_done = [d \in Docs |-> 0]
  /\ llm_calls = [d \in Docs |-> 0]
  /\ llm_outcome = [d \in Docs |-> None]
  /\ llm_data = [d \in Docs |-> EmptyLLMData]
  /\ text_content = [d \in Docs |-> <<>>]
  /\ chunks = [d \in Docs |-> <<>>]
  /\ next_chunk = [d \in Docs |-> 1]
  /\ exc = [d \in Docs |-> None]
  /\ result = [d \in Docs |-> None]
  /\ txns = <<>>
  /\ rows = <<>>
  /\ schema = EmptySchema
  /\ settings = [OPENAI_API_KEY |-> FALSE]
  /\ call = None

\* The documents of the two runs: one capital-call table of one valid row,
\* one page of two chunks; a fallback that is reached gets one capital
\* call, or a reply that is not JSON.
TwoRunsStep(d) ==
    \/ ExtractTablesFrom(d, { << [page |-> 1, kw |-> {"capital call"},
                                  rows |-> <<GoodRow>>] >> })
    \/ InnerStep(d)
    \/ FallbackFrom(d, {"ok", "bad_json"},
                    { [capital_calls |-> << [date |-> Some("2025-05-01"),
                                             amount |-> Some(5000)] >>,
                       distributions |-> <<>>] })
    \/ ExtractTextFrom(d, { Pages(<< <<900, 150>> >>) })

NextTwoRuns ==
  /\ \E d \in Docs : TwoRunsStep(d)
  /\ UNCHANGED << call, settings >>

SpecTwoRuns == InitTwoRuns /\ [][NextTwoRuns]_vars

\* ============================================================ vector store
\* A state in which no run has been dispatched.
NoRun ==
  /\ pc = [d \in Docs |-> "idle"]
  /\ status = [d \in Docs |-> "pending"]
  /\ error_message = [d \in Docs |-> None]
  /\ status_log = [d \in Docs |-> <<>>]
  /\ llm_client = [d \in Docs |-> FALSE]
  /\ stats = [d \in Docs |-> EmptyStats]
  /\ tables = [d \in Docs |-> <<>>]
  /\ tables_done = [d \in Docs |-> 0]
  /\ llm_calls = [d \in Docs |-> 0]
  /\ llm_outcome = [d \in Docs |-> None]
  /\ llm_data = [d \in Docs |-> EmptyLLMData]
  /\ text_content = [d \in Docs |-> <<>>]
  /\ chunks = [d \in Docs |-> <<>>]
  /\ next_chunk = [d \in Docs |-> 1]
  /\ exc = [d \in Docs |-> None]
  /\ result = [d \in Docs |-> None]
  /\ txns = <<>>

RunUnchanged ==
  UNCHANGED << pc, status, error_message, status_log, llm_client, stats,
               tables, tables_done, llm_calls, llm_outcome, llm_data, text_content, chunks,
               next_chunk, exc, result, txns >>

\* The arguments of a call that is about to be made.
IsInput(c) == c # None /\ c[1].fn = "input"
IsInputOf(c, fn) == IsInput(c) /\ c[1].of = fn

\* Texts that are stored and searched for.
StoreTexts == { Sentences(1, <<150>>), Sentences(1, <<900>>) }
\* fund_id comes from the metadata the caller passes; 0 is an integer like
\* any other.
StoreFundIds == {0, 7}

\* What add_document was called with for the rows in the table.
StoreInserts ==
  { [content |-> Sentences(1, <<150>>), document_id |-> 1, fund_id |-> 7],
    [content |-> Sentences(1, <<900>>), document_id |-> 1, fund_id |-> 7],
    [content |-> Sentences(1, <<150>>), document_id |-> 1, fund_id |-> 0],
    [content |-> Sentences(1, <<150>>), document_id |-> 2, fund_id |-> 7],
    [content |-> Sentences(1, <<900>>), document_id |-> 2, fund_id |-> 0] }

\* The contents of document_embeddings: id is the SERIAL key.
StoredRowLists ==
  { [i \in 1..Len(ms) |->
       EmbeddingRow(i, ms[i].content,
                    [document_id |-> ms[i].document_id, fund_id |-> ms[i].fund_id,
                     page |-> 1, chunk_index |-> 0, source |-> ms[i].document_id])] :
      ms \in SeqsUpTo(StoreInserts, 0, MaxStoredRows) }

\* _get_embedding: the model maps equal texts to equal vectors, so the vector
\* stored with a row is the vector of its content; a vector is a point here.
get_embedding(content) == JoinedLen(content)

\* embedding <=> :query_embedding
Distance(a, b) == IF a >= b THEN a - b ELSE b - a

\* filter_metadata: a value per key, None when the key is absent or null.
SearchFilters ==
  [document_id : {None, Some(1)}, fund_id : {None, Some(0), Some(7)},
   page : {None, Some(2)}]

\* The WHERE clause looks at fund_id alone.
FilterMatches_fund_only(r, filter_metadata) ==
  filter_metadata.fund_id # None => r.fund_id = filter_metadata.fund_id[1]

\* The WHERE clause (lines 169-178): equality on document_id and fund_id for
\* the keys that are present with a value; every other key is passed over.
FilterMatches(r, filter_metadata) ==
  /\ filter_metadata.document_id # None => r.document_id = filter_metadata.document_id[1]
  /\ filter_metadata.fund_id # None => r.fund_id = filter_metadata.fund_id[1]

SearchHit(r, query) ==
  [id |-> r.id, document_id |-> r.document_id, fund_id |-> r.fund_id,
   content |-> r.content, metadata |-> r.metadata,
   score |-> 1 - Distance(get_embedding(r.content), get_embedding(query))]

\* ORDER BY distance LIMIT k: every order of the matching rows by growing
\* distance (rows at equal distance come in either order), cut after k.
SearchResults(rs, query, k, filter_metadata) ==
  LET matching == SelectSeq(rs, LAMBDA r : FilterMatches(r, filter_metadata))
      n == Len(matching)
      dist(i) == Distance(get_embedding(matching[i].content), get_embedding(query))
      orders == { o \in [1..n -> 1..n] :
                    /\ \A i, j \in 1..n : i # j => o[i] # o[j]
                    /\ \A i \in 1..n : i < n => dist(o[i]) <= dist(o[i + 1]) }
      m == IF k < n THEN k ELSE n
  IN { [i \in 1..m |-> SearchHit(matching[o[i]], query)] : o \in orders }

\* k: one hit, or the default of five.
SearchLimits == {1, 5}

\* What stops a search: nothing, the embedding of the query, or the query
\* on the database.
SearchFaults == {None, Some("embedding"), Some("execute")}

\* The handler lets the exception go on to the caller.
SearchOutcomes_reraises(rs, query, k, filter_metadata, fault) ==
  IF fault # None THEN { [ret |-> <<>>, raised |-> TRUE] }
  ELSE { [ret |-> hits, raised |-> FALSE] :
           hits \in SearchResults(rs, query, k, filter_metadata) }

\* similarity_search: what it returns and whether it raises.
SearchOutcomes(rs, query, k, filter_metadata, fault) ==
  IF fault # None THEN { [ret |-> <<>>, raised |-> FALSE] }
  ELSE { [ret |-> hits, raised |-> FALSE] :
           hits \in SearchResults(rs, query, k, filter_metadata) }

\* similarity_search called with one of the given arguments.
SimilaritySearchFor(queries, limits, filters, faults) ==
  \E query \in queries, k \in limits, filter_metadata \in filters, fault \in faults :
    \E out \in SearchOutcomes(rows, query, k, filter_metadata, fault) :
      /\ call' = Some([fn |-> "similarity_search", query |-> query, k |-> k,
                       filter |-> filter_metadata, fault |-> fault,
                       ret |-> out.ret, raised |-> out.raised])
      /\ UNCHANGED rows
      /\ RunUnchanged
      /\ UNCHANGED << settings, schema >>

SimilaritySearch ==
  SimilaritySearchFor(StoreTexts, SearchLimits, SearchFilters, SearchFaults)

\* `if fund_id:` of clear.
Truthy(fund_id) == fund_id # None /\ fund_id[1] # 0

\* clear: the DELETE it executes and commits; a failure is logged, rolled
\* back and swallowed.
RowsAfterClear(rs, fund_id, ok) ==
  IF ~ok THEN rs
  ELSE IF Truthy(fund_id) THEN SelectSeq(rs, LAMBDA r : r.fund_id # fund_id[1])
  ELSE <<>>

ClearOf(fund_ids) ==
  \E fund_id \in fund_ids, ok \in BOOLEAN :
    /\ rows' = RowsAfterClear(rows, fund_id, ok)
    /\ call' = Some([fn |-> "clear", fund_id |-> fund_id, ok |-> ok])
    /\ RunUnchanged
    /\ UNCHANGED << settings, schema >>

Clear == ClearOf({None} \cup {Some(f) : f \in StoreFundIds})

InitVectorStore ==
  /\ NoRun
  /\ rows \in StoredRowLists
  /\ settings = [OPENAI_API_KEY |-> FALSE]
  /\ schema = ensure_extension(EmptySchema, settings, 0)
  /\ call = None

NextVectorStore == SimilaritySearch \/ Clear

SpecVectorStore == InitVectorStore /\ [][NextVectorStore]_vars

\* ==================================================== store initialization
\* A table of n rows, all of one document of fund 7.
BulkRows(n) ==
  [i \in 1..n |->
     EmbeddingRow(i, Sentences(1, <<150>>),
                  [document_id |-> 1, fund_id |-> 7, page |-> 1,
                   chunk_index |-> i - 1, source |-> 1])]

\* VectorStore(db): the embedding model is loaded, then _ensure_extension
\* runs in one transaction, which is committed, or rolled back when a
\* statement raises; nothing is raised to the caller.
InitializeStore ==
  /\ \E ok \in BOOLEAN :
       /\ schema' = IF ok THEN ensure_extension(schema, settings, Len(rows)) ELSE schema
       /\ call' = Some([fn |-> "_ensure_extension", settings |-> settings,
                        count |-> Len(rows), had_index |-> schema.index, ok |-> ok])
  /\ UNCHANGED << rows, settings >>
  /\ RunUnchanged

\* The deployment is restarted with another provider configuration.
Configure ==
  /\ \E s \in [OPENAI_API_KEY : BOOLEAN] : s # settings /\ settings' = s
  /\ UNCHANGED << rows, schema, call >>
  /\ RunUnchanged

\* add_document called on a store built under the current configuration:
\* the row is inserted and committed, or the insert raises and is rolled back.
AddDocumentUpTo(max_rows) ==
  /\ Len(rows) < max_rows
  /\ \E ins \in { [content |-> Sentences(1, <<150>>), document_id |-> 1, fund_id |-> 7] },
        ok \in BOOLEAN :
       /\ ok => CanInsert(schema, settings)
       /\ LET metadata == [document_id |-> ins.document_id, fund_id |-> ins.fund_id,
                           page |-> 1, chunk_index |-> 0, source |-> ins.document_id]
          IN /\ rows' = IF ok
                        THEN Append(rows, EmbeddingRow(MaxId(rows) + 1, ins.content, metadata))
                        ELSE rows
             /\ call' = Some([fn |-> "add_document", content |-> ins.content,
                              metadata |-> metadata, raised |-> ~ok])
  /\ UNCHANGED << settings, schema >>
  /\ RunUnchanged

InitStoreInit ==
  /\ NoRun
  /\ settings \in [OPENAI_API_KEY : BOOLEAN]
  /\ \/ rows = <<>> /\ schema = EmptySchema
     \/ /\ rows \in {BulkRows(MaxIndexedRows - 3), BulkRows(MaxIndexedRows - 2)}
        /\ schema = [table |-> Some(SchemaDimension(settings)), index |-> FALSE]
  /\ call = None

NextStoreInit ==
  InitializeStore \/ Configure \/ AddDocumentUpTo(MaxIndexedRows) \/ Clear

SpecStoreInit == InitStoreInit /\ [][NextStoreInit]_vars

\* ======================================================= rows of the store
\* The rows of the deleted document go with its record.
RowsAfterDelete_cascades(rs, document_id) ==
  SelectSeq(rs, LAMBDA r : r.document_id # document_id)

\* What delete_document leaves of document_embeddings: it removes the
\* document's file and its Document record and executes nothing else.
RowsAfterDelete(rs, document_id) == rs

\* The delete_document endpoint, called for a document that exists and whose
\* task is not running: afterwards there is no Document record.
DeleteDocument ==
  \E document_id \in Docs :
    /\ pc[document_id] \in {"idle", "returned", "raised"}
    /\ status[document_id] # "no_document"
    /\ status' = [status EXCEPT ![document_id] = "no_document"]
    /\ error_message' = [error_message EXCEPT ![document_id] = None]
    /\ rows' = RowsAfterDelete(rows, document_id)
    /\ call' = Some([fn |-> "delete_document", document_id |-> document_id])
    /\ UNCHANGED << pc, status_log, llm_client, stats, tables, tables_done,
                    llm_calls, llm_outcome, llm_data, text_content, chunks,
                    next_chunk, exc, result, txns, schema, settings >>

\* The table when document 1 is ingested again: empty, or holding a chunk
\* of its first ingestion and a chunk of document 2.
ReingestedRows ==
  [i \in 1..2 |->
     EmbeddingRow(i, Sentences(1, <<150>>),
                  [document_id |-> i, fund_id |-> FundOf(i), page |-> 1,
                   chunk_index |-> 0, source |-> i])]

InitStoreRows ==
  /\ pc = [d \in Docs |-> IF d = 1 THEN "queued" ELSE "idle"]
  /\ status = [d \in Docs |-> IF d = 1 THEN "pending" ELSE "completed"]
  /\ error_message = [d \in Docs |-> None]
  /\ status_log = [d \in Docs |-> <<>>]
  /\ llm_client = [d \in Docs |-> FALSE]
  /\ stats = [d \in Docs |-> EmptyStats]
  /\ tables = [d \in Docs |-> <<>>]
  /\ tables_done = [d \in Docs |-> 0]
  /\ llm_calls = [d \in Docs |-> 0]
  /\ llm_outcome = [d \in Docs |-> None]
  /\ llm_data = [d \in Docs |-> EmptyLLMData]
  /\ text_content = [d \in Docs |-> <<>>]
  /\ chunks = [d \in Docs |-> <<>>]
  /\ next_chunk = [d \in Docs |-> 1]
  /\ exc = [d \in Docs |-> None]
  /\ result = [d \in Docs |-> None]
  /\ txns = <<>>
  /\ rows = ReingestedRows
  /\ settings = [OPENAI_API_KEY |-> FALSE]
  /\ schema = ensure_extension(EmptySchema, settings, 0)
  /\ call = None

\* The run of document 1 and, between its steps, the calls on the store.
NextStoreRows ==
  \/ TwoRunsStep(1) /\ UNCHANGED << call, settings >>
  \/ AddDocumentUpTo(MaxStoredRows + 1)
  \/ SimilaritySearchFor({Sentences(1, <<150>>)}, {1}, {[document_id |-> None, fund_id |-> Some(FundOf(1)), page |-> None]}, {None})
  \/ InitializeStore
  \/ DeleteDocument
  \/ ClearOf({None, Some(FundOf(1))})

SpecStoreRows == InitStoreRows /\ [][NextStoreRows]_vars

\* ====================================================== tables as extracted
\* A table as pdfplumber hands it over: headers and rows of cells, a cell
\* being None or Some(text).  The words a cell contributes to a lower-cased,
\* space-joined text (str(cell) ... .lower()); a text is the sequence of its
\* words.
LowerWords(s) ==
  CASE s = "" -> <<>>
    [] s = "Date" -> <<"date">>
    [] s = "Amount" -> <<"amount">>
    [] s = "Description" -> <<"description">>
    [] s = "Category" -> <<"category">>
    [] s = "Call Type" -> <<"call", "type">>
    [] s = "Call Number" -> <<"call", "number">>
    [] s = "Distribution Type" -> <<"distribution", "type">>
    [] s = "Adjustment Type" -> <<"adjustment", "type">>
    [] s = "Recallable" -> <<"recallable">>
    [] s = "Random" -> <<"random">>
    [] s = "Headers" -> <<"headers">>
    [] s = "Here" -> <<"here">>
    [] s = "Capital" -> <<"capital">>
    [] s = "Distributions" -> <<"distributions">>
    [] s = "Initial" -> <<"initial">>
    [] s = "First call" -> <<"first", "call">>
    [] s = "Follow-on" -> <<"follow-on">>
    [] s = "Dividend" -> <<"dividend">>
    [] s = "Return of Capital" -> <<"return", "of", "capital">>
    [] s = "Type" -> <<"type">>
    [] s = "Expense" -> <<"expense">>
    [] s = "Management Fee" -> <<"management", "fee">>
    [] s = "Management Fees" -> <<"management", "fees">>
    [] s = "Annual fee" -> <<"annual", "fee">>
    [] s = "Recallable Distribution" -> <<"recallable", "distribution">>
    [] s = "Recalled Capital Call" -> <<"recalled", "capital", "call">>
    [] s = "Capital Call Adjustment" -> <<"capital", "call", "adjustment">>
    [] s = "Capital Contribution Fee" -> <<"capital", "contribution", "fee">>
    [] s = "Fee Expense" -> <<"fee", "expense">>
    [] s = "Rebalance" -> <<"rebalance">>
    [] OTHER -> <<s>>

\* The words of a keyword.
KeywordWords(k) ==
  CASE k = "capital call" -> <<"capital", "call">>
    [] k = "call number" -> <<"call", "number">>
    [] k = "capital contribution" -> <<"capital", "contribution">>
    [] k = "capital drawdown" -> <<"capital", "drawdown">>
    [] k = "return of capital" -> <<"return", "of", "capital">>
    [] k = "recalled distribution" -> <<"recalled", "distribution">>
    [] k = "capital call adjustment" -> <<"capital", "call", "adjustment">>
    [] k = "distribution type" -> <<"distribution", "type">>
    [] k = "adjustment type" -> <<"adjustment", "type">>
    [] OTHER -> <<k>>

\* Pairs <<w, word>> with w a proper prefix of word.
WordPrefixes == { <<"distribution", "distributions">>, <<"desc", "description">>,
                  <<"recall", "recallable">>, <<"fee", "fees">> }

StartsWith(word, w) == word = w \/ <<w, word>> \in WordPrefixes

\* `keyword in text`: the keyword is a substring of the text.  Its first
\* word ends a word of the text, its last word starts one, the words between
\* are words of the text (no word used here ends with another one).
Occurs(k, text) ==
  LET kw == KeywordWords(k)
      n == Len(kw)
  IN \E i \in 1..Len(text) :
       /\ i + n - 1 <= Len(text)
       /\ IF n = 1 THEN StartsWith(text[i], kw[1])
          ELSE /\ text[i] = kw[1]
               /\ \A j \in 2..(n - 1) : text[i + j - 1] = kw[j]
               /\ StartsWith(text[i + n - 1], kw[n])

CellWords(cell) == IF cell = None THEN <<>> ELSE LowerWords(cell[1])

RECURSIVE RowWords(_)
RowWords(row) ==
  IF row = <<>> THEN <<>> ELSE CellWords(Head(row)) \o RowWords(Tail(row))

RECURSIVE RowsWords(_)
RowsWords(rs) ==
  IF rs = <<>> THEN <<>> ELSE RowWords(Head(rs)) \o RowsWords(Tail(rs))

\* table_info.get('rows', [])[:5]
FirstRows(rs, n) == SubSeq(rs, 1, IF Len(rs) < n THEN Len(rs) ELSE n)

\* Lines 227-234: the headers and the first five rows, joined, lower-cased.
text_to_check(headers, rs) == RowWords(headers) \o RowsWords(FirstRows(rs, 5))

\* The classification keywords that are substrings of a text.
KeywordsIn(text) ==
  { k \in CAPITAL_CALL_KEYWORDS \cup DISTRIBUTION_KEYWORDS \cup ADJUSTMENT_KEYWORDS :
      Occurs(k, text) }

\* _find_column_index: the first header that contains one of the keywords.
find_column_index(headers, keywords) ==
  LET hit(i) == \E k \in keywords : Occurs(k, CellWords(headers[i]))
  IN IF \E i \in 1..Len(headers) : hit(i)
     THEN Some(CHOOSE i \in 1..Len(headers) :
                 hit(i) /\ \A j \in 1..(i - 1) : ~hit(j))
     ELSE None

\* The columns a parser looks for besides the date and the amount.
OtherColumnKeywords(kind) ==
  CASE kind = "capital_calls" ->
         { {"call number", "type", "call"}, {"description", "desc", "notes"} }
    [] kind = "distributions" ->
         { {"type", "distribution type"}, {"recallable", "recall"},
           {"description", "desc", "notes"} }
    [] kind = "adjustments" ->
         { {"type", "adjustment type"}, {"description", "desc", "notes"} }

\* The indices row[...] is read at: those of the located columns.
LocatedIndices(headers, kind) ==
  { c[1] : c \in { find_column_index(headers, ks) :
                     ks \in OtherColumnKeywords(kind) \cup {{"date"}, {"amount"}} }
                 \ {None} }

\* `not row`, or every cell None or blank.
IsBlankRow(row) == \A i \in 1..Len(row) : row[i] = None \/ row[i] = Some("")

\* What a parser reads of a row: the cell of the date column and the cell
\* of the amount column (None when the column was not located), and whether
\* the row ends before a located column, so that row[idx] raises.  A blank
\* row is passed over before any cell is read.
RowView(headers, row, kind) ==
  LET date_idx == find_column_index(headers, {"date"})
      amount_idx == find_column_index(headers, {"amount"})
      at(idx) == IF idx # None /\ idx[1] <= Len(row) THEN row[idx[1]] ELSE None
  IN IF IsBlankRow(row) THEN [date |-> None, amount |-> None, short |-> FALSE]
     ELSE [date |-> at(date_idx), amount |-> at(amount_idx),
           short |-> \E i \in LocatedIndices(headers, kind) : i > Len(row)]

\* The fee and expense keywords are looked for before the others.
classify_adjustment_fee_first(adj_type) ==
  IF Occurs("fee", adj_type) THEN "fee_adjustment"
  ELSE IF Occurs("expense", adj_type) THEN "expense_adjustment"
  ELSE IF Occurs("recallable", adj_type) \/ Occurs("recalled", adj_type)
  THEN "recallable_distribution"
  ELSE IF Occurs("capital call", adj_type) THEN "capital_call_adjustment"
  ELSE IF Occurs("contribution", adj_type) THEN "contribution_adjustment"
  ELSE "other"

\* _classify_adjustment_category, of the lower-cased adjustment type.
classify_adjustment_category(adj_type) ==
  IF Occurs("recallable", adj_type) \/ Occurs("recalled", adj_type)
  THEN "recallable_distribution"
  ELSE IF Occurs("capital call", adj_type) THEN "capital_call_adjustment"
  ELSE IF Occurs("contribution", adj_type) THEN "contribution_adjustment"
  ELSE IF Occurs("fee", adj_type) THEN "fee_adjustment"
  ELSE IF Occurs("expense", adj_type) THEN "expense_adjustment"
  ELSE "other"

\* Lines 381-395 of parse_adjustment_table: the record of a row that is kept,
\* with the fields derived from the cell of the type column (the empty text
\* when the column was not located or the cell is empty).
AdjustmentRecord(headers, row) ==
  LET type_idx == find_column_index(headers, {"type", "adjustment type"})
      view == RowView(headers, row, "adjustments")
      parsed == ParseRow(view, "adjustments")
      filled == /\ type_idx # None
                /\ row[type_idx[1]] # None
                /\ row[type_idx[1]] # Some("")
  IN IF IsBlankRow(row) \/ parsed = <<>> THEN None
     ELSE LET adj_type == IF filled THEN LowerWords(row[type_idx[1]][1]) ELSE <<>>
          IN Some([adjustment_date |-> parsed[1].date,
                   adjustment_type |-> IF filled THEN row[type_idx[1]][1] ELSE "Adjustment",
                   category |-> classify_adjustment_category(adj_type),
                   amount |-> parsed[1].amount,
                   is_contribution_adjustment |->
                     Occurs("capital call", adj_type) \/ Occurs("contribution", adj_type)])

\* The table as the classifier and a parser of kind `kind` see it.
TableView(t, kind) ==
  [page |-> t.page, kw |-> KeywordsIn(text_to_check(t.headers, t.rows)),
   rows |-> [i \in 1..Len(t.rows) |-> RowView(t.headers, t.rows[i], kind)]]

\* Header rows and data rows the functions are applied to.
Cells(texts) == [i \in 1..Len(texts) |-> Some(texts[i])]

CallTypeHeaders == Cells(<<"Date", "Call Type", "Amount", "Description">>)

HeaderRows ==
  { CallTypeHeaders,
    Cells(<<"Date", "Call Number", "Amount", "Description">>),
    Cells(<<"Date", "Distribution Type", "Amount", "Recallable">>),
    Cells(<<"Date", "Adjustment Type", "Amount", "Category">>),
    Cells(<<"Random", "Headers", "Here">>),
    <<Some("Capital"), Some("Call Type"), None, Some("Distributions")>> }

GoodCells == Cells(<<"2023-01-15", "Initial", "$1,000", "First call">>)
BadDateCells == Cells(<<"n/a", "Follow-on", "(500)", "x">>)
BadAmountCells == Cells(<<"2023-01-15", "Follow-on", "n/a", "x">>)
NoAmountCells == Cells(<<"2023-01-15">>)
NoDescriptionCells == Cells(<<"2025-05-01", "Initial", "(500)">>)
BlankCells == <<None, Some(""), None, None>>
KeywordCells == Cells(<<"2025-05-01", "Dividend", "$1,000", "Return of Capital">>)

DataRows ==
  { <<>>,
    <<GoodCells>>,
    <<GoodCells, BadDateCells, BadAmountCells>>,
    <<NoAmountCells, BadDateCells, GoodCells>>,
    <<NoDescriptionCells, GoodCells>>,
    <<BlankCells, GoodCells, <<>>, KeywordCells>>,
    <<GoodCells, GoodCells, GoodCells, GoodCells, KeywordCells>>,
    <<GoodCells, GoodCells, GoodCells, GoodCells, GoodCells, KeywordCells>> }

ExtractedTables == [page : {1}, headers : HeaderRows, rows : DataRows]

TableKinds == {"capital_calls", "distributions", "adjustments"}

\* classify_table_type applied to a table.
Classify ==
  /\ IsInputOf(call, "table")
  /\ LET t == call[1].table_info
     IN call' = Some([fn |-> "classify_table_type", table_info |-> t,
                      ret |-> classify_table_type(TableView(t, "capital_calls"))])
  /\ UNCHANGED rows
  /\ RunUnchanged
  /\ UNCHANGED << settings, schema >>

\* parse_capital_call_table / parse_distribution_table /
\* parse_adjustment_table applied to a table.
ParseTable ==
  /\ IsInputOf(call, "table")
  /\ \E kind \in TableKinds :
       LET t == call[1].table_info
       IN call' = Some([fn |-> "parse_table", kind |-> kind, table_info |-> t,
                        ret |-> parse_table(TableView(t, kind), kind)])
  /\ UNCHANGED rows
  /\ RunUnchanged
  /\ UNCHANGED << settings, schema >>

\* Amount texts: every text of up to MaxAmountLen of these characters.
AmountAlphabet == {"(", ")", "$", ",", "-", "5", "x"}
AmountStrings == SeqsUpTo(AmountAlphabet, 1, MaxAmountLen)

\* _parse_amount applied to a text.
ParseAmountCall ==
  /\ IsInputOf(call, "amount")
  /\ call' = Some([fn |-> "_parse_amount", amount_str |-> call[1].amount_str,
                   ret |-> ParseAmountChars(call[1].amount_str)])
  /\ UNCHANGED rows
  /\ RunUnchanged
  /\ UNCHANGED << settings, schema >>

\* Adjustment tables of one row: a type column that holds one of the type
\* texts, an empty cell or no cell; a table with a Category column beside
\* the Type column; a table without a type column.
AdjustmentRows ==
  { [headers |-> Cells(<<"Date", hd, "Amount">>),
     row |-> Cells(<<dt, ty, "$1,000">>)] :
      hd \in {"Type", "Adjustment Type"}, dt \in {"2023-01-15", "n/a"},
      ty \in { "Recallable Distribution", "Recalled Capital Call",
               "Capital Call Adjustment", "Capital Contribution Fee",
               "Management Fee", "Management Fees", "Fee Expense", "Expense",
               "Rebalance", "" } }
  \cup { [headers |-> Cells(<<"Date", "Type", "Amount">>),
          row |-> <<Some("2023-01-15"), None, Some("(500)")>>],
         [headers |-> Cells(<<"Date", "Amount", "Type">>),
          row |-> Cells(<<"2023-01-15", "(500)">>)],
         [headers |-> Cells(<<"Date", "Amount">>),
          row |-> Cells(<<"2023-01-15", "(500)">>)],
         [headers |-> Cells(<<"Date", "Type", "Category", "Amount", "Description">>),
          row |-> Cells(<<"2023-01-15", "Expense", "Management Fee", "$50,000",
                          "Annual fee">>)] }

\* parse_adjustment_table applied to a table of one row.
ParseAdjustmentRow ==
  /\ IsInputOf(call, "adjustment")
  /\ call' = Some([fn |-> "parse_adjustment_table", headers |-> call[1].headers,
                   row |-> call[1].row,
                   ret |-> AdjustmentRecord(call[1].headers, call[1].row)])
  /\ UNCHANGED rows
  /\ RunUnchanged
  /\ UNCHANGED << settings, schema >>

\* validate_and_clean_data applied to a list of records (with or without a
\* date, with or without an amount, the amount of either sign or zero), and
\* to its result.
ValidateCall ==
  /\ IsInputOf(call, "records")
  /\ LET cleaned_data == validate_and_clean_data(call[1].data, call[1].table_type)
     IN call' = Some([fn |-> "validate_and_clean_data", data |-> call[1].data,
                      table_type |-> call[1].table_type, ret |-> cleaned_data,
                      again |-> validate_and_clean_data(cleaned_data, call[1].table_type)])
  /\ UNCHANGED rows
  /\ RunUnchanged
  /\ UNCHANGED << settings, schema >>

InitTableParser ==
  /\ NoRun
  /\ rows = <<>>
  /\ settings = [OPENAI_API_KEY |-> FALSE]
  /\ schema = EmptySchema
  /\ \/ \E t \in ExtractedTables :
          call = Some([fn |-> "input", of |-> "table", table_info |-> t])
     \/ \E amount_str \in AmountStrings :
          call = Some([fn |-> "input", of |-> "amount", amount_str |-> amount_str])
     \/ \E a \in AdjustmentRows :
          call = Some([fn |-> "input", of |-> "adjustment", headers |-> a.headers,
                       row |-> a.row])
     \/ \E table_type \in TableKinds :
        \E data \in SeqsUpTo([kind : {table_type}, date : {None, Some("2023-01-15")},
                               amount : {None, Some(0 - 500), Some(0), Some(1000)}],
                              0, MaxRecords) :
          call = Some([fn |-> "input", of |-> "records", data |-> data,
                       table_type |-> table_type])

NextTableParser ==
  Classify \/ ParseTable \/ ParseAmountCall \/ ValidateCall \/ ParseAdjustmentRow

SpecTableParser == InitTableParser /\ [][NextTableParser]_vars

\* ======================================================== chunker, applied
\* Page texts the chunker is applied to, as lengths of sentences.
ChunkerPageTexts ==
  { <<150>>, <<1200>>, <<500, 500>>, <<900, 150>>, <<150, 900>>,
    <<1200, 150>>, <<900, 150, 900>>, <<800, 150, 900>>,
    <<500, 400, 150, 150>>, <<700, 90, 90, 900>> }

\* settings.CHUNK_SIZE and settings.CHUNK_OVERLAP: the defaults, no overlap,
\* and an overlap as large as a chunk.
ChunkerSettings ==
  { [chunk_size |-> CHUNK_SIZE, chunk_overlap |-> CHUNK_OVERLAP],
    [chunk_size |-> CHUNK_SIZE, chunk_overlap |-> 0],
    [chunk_size |-> CHUNK_SIZE \div 2, chunk_overlap |-> CHUNK_SIZE \div 2] }

\* _chunk_text applied to a list of pages.
ChunkTextCall ==
  /\ IsInput(call)
  /\ call' = Some([fn |-> "_chunk_text", text_content |-> call[1].text_content,
                   settings |-> call[1].settings,
                   ret |-> ChunkPages(call[1].text_content,
                                      call[1].settings.chunk_size,
                                      call[1].settings.chunk_overlap)])
  /\ UNCHANGED rows
  /\ RunUnchanged
  /\ UNCHANGED << settings, schema >>

InitChunker ==
  /\ NoRun
  /\ rows = <<>>
  /\ settings = [OPENAI_API_KEY |-> FALSE]
  /\ schema = EmptySchema
  /\ \E ps \in SeqsUpTo(ChunkerPageTexts, 0, MaxChunkPages), chunking \in ChunkerSettings :
       call = Some([fn |-> "input", text_content |-> Pages(ps), settings |-> chunking])

NextChunker == ChunkTextCall

SpecChunker == InitChunker /\ [][NextChunker]_vars

\* ================================================================== properties
Terminal == {"completed", "failed"}
Ended(d) == pc[d] \in {"returned", "raised"}

IsPrefix(p, q) == Len(p) <= Len(q) /\ SubSeq(q, 1, Len(p)) = p

\* The status transitions the state machine of the ingestion run names.
NamedTransitions ==
  { <<"pending", "processing">>, <<"processing", "completed">>,
    <<"processing", "failed">> }

StatusStepWithin(d, allowed) ==
  /\ status'[d] # status[d] => <<status[d], status'[d]>> \in allowed
  /\ status_log'[d] # status_log[d] =>
       /\ status_log'[d] = Append(status_log[d], status'[d])
       /\ \A i \in 1..Len(status_log[d]) : status_log[d][i] \notin Terminal

\* C1 as stated: within one run the committed parsing_status moves only
\* pending -> processing, processing -> completed, processing -> failed, and
\* nothing is written once completed or failed has been written.
C1_AsStated == [][\A d \in Docs : StatusStepWithin(d, NamedTransitions)]_vars

\* C1, amended: the same, with the further transition pending -> failed,
\* taken when the task's own handler writes failed after the processing
\* write raised; no status is written after completed or failed, so a run
\* never writes both.
C1_StatusTransitions ==
  [][\A d \in Docs :
       StatusStepWithin(d, NamedTransitions \cup { <<"pending", "failed">> })]_vars

C1_Witness ==
  \E d \in Docs : pc[d] = "raised" /\ status_log[d] = <<"failed">>

\* C2 as stated: a run that has set the document to processing does not end
\* while the document is still processing.
C2_AsStated ==
  \A d \in Docs :
    (Ended(d) /\ status_log[d] # <<>> /\ status_log[d][1] = "processing")
      => status[d] \in Terminal

\* C3 as stated: when an exception escapes table extraction, text
\* extraction, chunking or add_document, the handler sets the status to
\* failed with a message holding the exception, returns success = FALSE and
\* returns the counts gathered before the failure.
C3_AsStated ==
  [][\A d \in Docs :
       (pc[d] = "fatal" /\ pc'[d] = "returned") =>
         /\ status'[d] = "failed"
         /\ error_message'[d] # None
         /\ error_message'[d][1].exc = exc[d][1]
         /\ result'[d] # None
         /\ result'[d][1].success = FALSE
         /\ \A f \in {"capital_calls", "distributions", "adjustments",
                      "text_chunks", "tables_found", "pages_processed"} :
              result'[d][1].stats[f] = stats[d][f]]_vars

RunRows(rs, d) == SelectSeq(rs, LAMBDA r : r.document_id = d)

\* C4: a run that ends with the status completed left no error message and
\* inserted every chunk of the chunker exactly once, in order, with the
\* run's document_id and fund_id and the chunk's page and chunk_index; the
\* rows of the run are as many as stats.text_chunks.
C4_CompletedMeansAllChunksStored ==
  \A d \in Docs :
    (Ended(d) /\ status[d] = "completed") =>
      LET mine == RunRows(rows, d) IN
      /\ error_message[d] = None
      /\ Len(mine) = Len(chunks[d])
      /\ Len(mine) = stats[d].text_chunks
      /\ result[d] # None /\ result[d][1].stats.text_chunks = Len(mine)
      /\ \A i \in 1..Len(mine) :
           /\ mine[i].content = chunks[d][i].text
           /\ mine[i].document_id = d
           /\ mine[i].fund_id = FundOf(d)
           /\ mine[i].metadata.document_id = d
           /\ mine[i].metadata.fund_id = FundOf(d)
           /\ mine[i].metadata.page = chunks[d][i].page
           /\ mine[i].metadata.chunk_index = chunks[d][i].chunk_index

C4_Witness ==
  \E d \in Docs :
    /\ Ended(d) /\ status[d] = "completed"
    /\ Len(chunks[d]) = 2 /\ Len(RunRows(rows, d)) = 2

\* C5: once table extraction has succeeded, extract_data_from_text is called
\* exactly when, after the last table, no table was found or the
\* capital-call and distribution counts are both zero; it is called at most
\* once in a run.
C5_FallbackIffNothingStructured ==
  [][\A d \in Docs :
       /\ (pc[d] = "tables" /\ tables[d] = <<>> /\ pc'[d] # pc[d]) =>
            ( llm_calls'[d] = llm_calls[d] + 1
              <=> ( stats[d].tables_found = 0
                    \/ ( stats[d].capital_calls = 0
                         /\ stats[d].distributions = 0 ) ) )
       /\ llm_calls'[d] # llm_calls[d] =>
            /\ llm_calls[d] = 0 /\ llm_calls'[d] = 1
            /\ pc[d] = "tables" /\ tables[d] = <<>>]_vars

C5_Witness ==
  \E d \in Docs :
    /\ llm_calls[d] = 1
    /\ stats[d].tables_found = 2
    /\ stats[d].adjustments > 0

HasTableError(st) ==
  \E i \in 1..Len(st.errors) : st.errors[i].text = "Error processing table on page"

\* C6 as stated: the run over the capital-call document ends with two
\* capital calls, no distribution and exactly one call of the fallback.
C6_AsStated ==
  \A d \in Docs :
    ( /\ pc[d] = "returned" /\ result[d][1].success
      /\ tables_done[d] = 1 /\ ~HasTableError(stats[d]) ) =>
      /\ stats[d].capital_calls = 2
      /\ stats[d].distributions = 0
      /\ llm_calls[d] = 1

\* C6, amended: once the table of the capital-call document is parsed and
\* saved without an exception, the counts are two capital calls and no
\* distribution until the run ends, and the fallback is not called in that
\* run: one non-zero count is enough to skip it.
C6_TwoCallsAndNoFallback ==
  \A d \in Docs :
    (tables_done[d] = 1 /\ ~HasTableError(stats[d])) =>
      /\ stats[d].capital_calls = 2
      /\ stats[d].distributions = 0
      /\ llm_calls[d] = 0
      /\ pc[d] \notin {"llm_save_calls", "llm_save_dists", "llm_except"}

C6_Witness ==
  \E d \in Docs :
    /\ pc[d] = "returned" /\ status[d] = "completed"
    /\ tables_done[d] = 1 /\ stats[d].capital_calls = 2
    /\ llm_calls[d] = 0 /\ Len(txns) = 2

\* The exceptions that reach the handler of process_document.
FatalCauses == {"extract_tables", "extract_text", "chunk_text", "add_document"}

\* C7: an exception raised in one table's iteration is recorded in
\* stats.errors and the loop goes on with the next table; the loop is left
\* only when every extracted table has been visited, and the run's fatal
\* handler is entered only from table extraction, text extraction, chunking
\* or add_document, never from a table's iteration.
C7_TableExceptionIsolated ==
  [][\A d \in Docs :
       /\ (pc[d] = "table_except" /\ pc'[d] # pc[d]) =>
            /\ pc'[d] = "tables"
            /\ stats'[d].errors =
                 Append(stats[d].errors,
                        TableMessage(Head(tables[d]).page, exc[d][1]))
            /\ tables'[d] = Tail(tables[d])
            /\ status'[d] = status[d]
       /\ (pc[d] = "tables" /\ pc'[d] \notin {"tables", "table_except"}) =>
            /\ tables[d] = <<>>
            /\ tables_done[d] = stats[d].tables_found
       /\ (pc'[d] = "fatal" /\ pc[d] # "fatal") =>
            /\ pc[d] \in {"extract_tables", "extract_text", "chunk_text", "add_chunks"}
            /\ exc'[d] # None /\ exc'[d][1] \in FatalCauses]_vars

C7_Witness ==
  \E d \in Docs :
    /\ Ended(d) /\ status[d] = "completed"
    /\ stats[d].tables_found = 2 /\ tables_done[d] = 2
    /\ Len(stats[d].errors) = 1
    /\ stats[d].errors[1] = TableMessage(1, "save")
    /\ stats[d].distributions = 2

\* A row of the table the parser drops: too short, or a date or an amount
\* that does not parse.
DropsRow(table_info) ==
  \E i \in 1..Len(table_info.rows) : ParseRow(table_info.rows[i], "any") = <<>>

\* C8 as stated: a dropped row, a table skipped as Unknown or because its
\* iteration raised, and a fallback that fails because the provider is
\* unavailable each add an entry to stats.errors.
C8_AsStated ==
  [][\A d \in Docs :
       LET grew == Len(stats'[d].errors) > Len(stats[d].errors) IN
       /\ ( /\ tables_done'[d] # tables_done[d]
            /\ \/ classify_table_type(Head(tables[d])) = None
               \/ DropsRow(Head(tables[d])) ) => grew
       /\ (pc[d] = "table_except" /\ pc'[d] # pc[d]) => grew
       /\ (llm_calls'[d] # llm_calls[d] /\ ~llm_client[d]) => grew]_vars

\* C8, amended: stats.errors gains an entry exactly when a handler of
\* process_document catches an exception: one raised in a table's iteration,
\* one raised while the fallback's records are validated and saved, and the
\* fatal one.  No other step adds an entry: not a dropped row, not a table
\* classified as Unknown, not a failure inside extract_data_from_text.
C8_OnlyCaughtExceptionsRecorded ==
  [][\A d \in Docs :
       LET e == stats[d].errors
           e2 == stats'[d].errors
       IN IF pc'[d] = pc[d] \/ pc[d] = "construct" THEN TRUE
          ELSE IF pc[d] = "table_except"
          THEN e2 = Append(e, TableMessage(Head(tables[d]).page, exc[d][1]))
          ELSE IF pc[d] = "llm_except"
          THEN e2 = Append(e, LLMMessage(exc[d][1]))
          ELSE IF pc[d] = "fatal"
          THEN e2 = Append(e, FatalMessage(exc[d][1]))
          ELSE e2 = e]_vars

C8_Witness ==
  \E d \in Docs :
    /\ Ended(d) /\ status[d] = "completed"
    /\ stats[d].errors = <<>>
    /\ stats[d].tables_found = 2
    /\ stats[d].capital_calls = 1 /\ stats[d].adjustments = 0
    /\ stats[d].distributions = 0

\* C9: every record in the transaction store has a date and an amount,
\* whether it came from a parsed table or from the fallback.
C9_StoredRecordsHaveDateAndAmount ==
  \A i \in 1..Len(txns) : txns[i].date # None /\ txns[i].amount # None

C9_Witness ==
  \E d \in Docs :
    /\ pc[d] = "llm_save_dists"
    /\ \E i \in 1..Len(llm_data[d].capital_calls) :
         llm_data[d].capital_calls[i].date = None
    /\ \E i \in 1..Len(txns) : txns[i].kind = "adjustments"
    /\ \A i \in 1..Len(txns) : txns[i].kind # "capital_calls"

\* C10: no step of a run removes or changes a committed transaction record
\* or embedding row; when add_document raises on a chunk, the rows stay as
\* they were, and from then on the rows of the run are exactly the chunks
\* before the failing one.
C10_PartialProgressKept ==
  [][/\ IsPrefix(rows, rows')
     /\ IsPrefix(txns, txns')
     /\ \A d \in Docs :
          /\ (pc[d] = "add_chunks" /\ pc'[d] = "fatal") => rows' = rows
          /\ (exc'[d] = Some("add_document")) =>
               LET mine == RunRows(rows', d) IN
               /\ next_chunk'[d] <= Len(chunks'[d])
               /\ Len(mine) = next_chunk'[d] - 1
               /\ \A i \in 1..Len(mine) :
                    /\ mine[i].content = chunks'[d][i].text
                    /\ mine[i].metadata.page = chunks'[d][i].page
                    /\ mine[i].metadata.chunk_index = chunks'[d][i].chunk_index]_vars

C10_Witness ==
  \E d \in Docs :
    /\ pc[d] = "returned" /\ status[d] = "failed"
    /\ exc[d] = Some("add_document")
    /\ next_chunk[d] = 2 /\ Len(chunks[d]) = 2
    /\ Len(RunRows(rows, d)) = 1
    /\ Len(txns) = 2

\* ------------------------------------------------------------ vector store
\* A step that is a call of fn on the vector store.
IsCall(c, fn) == c # None /\ c[1].fn = fn

Min(a, b) == IF a <= b THEN a ELSE b

\* C11: similarity_search never raises to its caller; when the embedding of
\* the query or the query on the database fails it returns an empty list,
\* and a search leaves the stored rows as they were.
C11_SearchNeverRaises ==
  [][(call' # call /\ IsCall(call', "similarity_search")) =>
       /\ rows' = rows
       /\ ~call'[1].raised
       /\ call'[1].fault # None => call'[1].ret = <<>>]_vars

C11_Witness ==
  /\ IsCall(call, "similarity_search")
  /\ call[1].fault = Some("execute")
  /\ call[1].filter.fund_id = None /\ call[1].filter.document_id = None
  /\ Len(rows) = 2
  /\ call[1].ret = <<>> /\ ~call[1].raised

\* C12: a search filtered on fund_id (on document_id) returns only rows of
\* that fund (of that document), also when rows of other funds are closer to
\* the query; any other filter key leaves the result as large as it is
\* without it: min(k, number of rows matching on document_id and fund_id).
C12_FilterRestrictsToFundAndDocument ==
  (IsCall(call, "similarity_search") /\ call[1].fault = None) =>
    LET f == call[1].filter
        inScope == SelectSeq(rows, LAMBDA r :
                     /\ f.fund_id # None => r.fund_id = f.fund_id[1]
                     /\ f.document_id # None => r.document_id = f.document_id[1])
    IN /\ \A i \in 1..Len(call[1].ret) :
            /\ f.fund_id # None => call[1].ret[i].fund_id = f.fund_id[1]
            /\ f.document_id # None => call[1].ret[i].document_id = f.document_id[1]
            /\ \E j \in 1..Len(rows) :
                 /\ rows[j].id = call[1].ret[i].id
                 /\ rows[j].fund_id = call[1].ret[i].fund_id
                 /\ rows[j].document_id = call[1].ret[i].document_id
       /\ Len(call[1].ret) = Min(call[1].k, Len(inScope))

\* A row of fund 0 is at distance 0 from the query, the search is for fund 7
\* and document 1 with a page key, and the farther row of fund 7 is returned.
C12_Witness ==
  /\ IsCall(call, "similarity_search") /\ call[1].fault = None
  /\ call[1].filter = [document_id |-> Some(1), fund_id |-> Some(7), page |-> Some(2)]
  /\ \E j \in 1..Len(rows) :
       /\ rows[j].fund_id = 0
       /\ rows[j].content = call[1].query
  /\ Len(call[1].ret) = 1
  /\ call[1].ret[1].fund_id = 7 /\ call[1].ret[1].document_id = 1
  /\ call[1].ret[1].content # call[1].query

\* C13 as stated: a clear that is given a fund id and goes through deletes
\* the rows of that fund and no other row, whatever the id; a clear without
\* a fund id deletes every row.
C13_AsStated ==
  [][(call' # call /\ IsCall(call', "clear") /\ call'[1].ok) =>
       IF call'[1].fund_id # None
       THEN rows' = SelectSeq(rows, LAMBDA r : r.fund_id # call'[1].fund_id[1])
       ELSE rows' = <<>>]_vars

\* ------------------------------------------------------------ table parser
\* C14: classify_table_type looks at the headers and the first five data
\* rows only, and returns the first of capital_calls, distributions,
\* adjustments that has a keyword which is a substring of that lower-cased
\* text; a table matching several categories gets the earliest, a table
\* matching none gets None.
C14_FirstMatchingCategory ==
  IsCall(call, "classify_table_type") =>
    LET t == call[1].table_info
        text == RowWords(t.headers)
                  \o RowsWords(SubSeq(t.rows, 1, Min(5, Len(t.rows))))
        has(K) == \E k \in K : Occurs(k, text)
        ret == call[1].ret
    IN /\ ret = Some("capital_calls") <=> has(CAPITAL_CALL_KEYWORDS)
       /\ ret = Some("distributions") <=>
            ~has(CAPITAL_CALL_KEYWORDS) /\ has(DISTRIBUTION_KEYWORDS)
       /\ ret = Some("adjustments") <=>
            /\ ~has(CAPITAL_CALL_KEYWORDS) /\ ~has(DISTRIBUTION_KEYWORDS)
            /\ has(ADJUSTMENT_KEYWORDS)
       /\ ret = None <=>
            /\ ~has(CAPITAL_CALL_KEYWORDS) /\ ~has(DISTRIBUTION_KEYWORDS)
            /\ ~has(ADJUSTMENT_KEYWORDS)

\* The headers hold "capital call" (across two cells) and "distribution",
\* the sixth row holds further distribution keywords: capital_calls.
C14_Witness ==
  /\ IsCall(call, "classify_table_type")
  /\ call[1].table_info.headers =
       <<Some("Capital"), Some("Call Type"), None, Some("Distributions")>>
  /\ Len(call[1].table_info.rows) = 6
  /\ call[1].ret = Some("capital_calls")

\* C15 as stated: the table with the headers Date, Call Type, Amount,
\* Description and no data row is classified as capital_calls.
C15_AsStated ==
  ( /\ IsCall(call, "classify_table_type")
    /\ call[1].table_info.headers = CallTypeHeaders
    /\ call[1].table_info.rows = <<>> )
  => call[1].ret = Some("capital_calls")

\* C16: a table parser returns, in row order, one record for every row that
\* is not blank, has a cell for every located column, and whose date and
\* amount both parse, and no record for any other row; a malformed row does
\* not keep the later rows from being parsed.
C16_OneRecordPerWellFormedRow ==
  IsCall(call, "parse_table") =>
    LET t == call[1].table_info
        kind == call[1].kind
        date_idx == find_column_index(t.headers, {"date"})
        amount_idx == find_column_index(t.headers, {"amount"})
        accepted(row) ==
          /\ \E i \in 1..Len(row) : row[i] # None /\ row[i] # Some("")
          /\ \A i \in LocatedIndices(t.headers, kind) : i <= Len(row)
          /\ date_idx # None /\ amount_idx # None
          /\ parse_date(row[date_idx[1]]) # None
          /\ parse_amount(row[amount_idx[1]]) # None
        kept == SelectSeq(t.rows, accepted)
        ret == call[1].ret
    IN /\ Len(ret) = Len(kept)
       /\ \A i \in 1..Len(ret) :
            /\ ret[i].kind = kind
            /\ ret[i].date = parse_date(kept[i][date_idx[1]])
            /\ ret[i].amount = parse_amount(kept[i][amount_idx[1]])

\* A row without an amount cell and a row with a bad date are dropped, the
\* row after them is parsed.
C16_Witness ==
  /\ IsCall(call, "parse_table")
  /\ call[1].kind = "capital_calls"
  /\ call[1].table_info.headers = CallTypeHeaders
  /\ call[1].table_info.rows = <<NoAmountCells, BadDateCells, GoodCells>>
  /\ call[1].ret = << [kind |-> "capital_calls", date |-> Some("2023-01-15"),
                       amount |-> Some(1000)] >>

\* ----------------------------------------------------------------- chunker
DefaultSettings == [chunk_size |-> CHUNK_SIZE, chunk_overlap |-> CHUNK_OVERLAP]

\* The chunks of one page, in the order of the output.
ChunksOfPage(cs, page_num) == SelectSeq(cs, LAMBDA c : c.page = page_num)

\* How many sentences of chunk b are sentences of chunk a.
SharedCount(a, b) ==
  Cardinality({ j \in 1..Len(b.text) : \E i \in 1..Len(a.text) : a.text[i] = b.text[j] })

\* The sentences at the head of b that a holds too, and the rest of b.
Carried(a, b) == SubSeq(b.text, 1, SharedCount(a, b))
Fresh(a, b) == SubSeq(b.text, SharedCount(a, b) + 1, Len(b.text))

IsSuffix(p, q) ==
  Len(p) <= Len(q) /\ p = SubSeq(q, Len(q) - Len(p) + 1, Len(q))

\* C17 as stated: every chunk has char_count <= chunk size, unless it holds
\* one sentence that alone is longer than the chunk size.
C17_AsStated ==
  IsCall(call, "_chunk_text") =>
    \A i \in 1..Len(call[1].ret) :
      LET c == call[1].ret[i] IN
        \/ c.char_count <= call[1].settings.chunk_size
        \/ Len(c.text) = 1 /\ c.text[1].len > call[1].settings.chunk_size

\* C18 as stated: of two consecutive chunks of a page, when the earlier one
\* is longer than the overlap, the later one begins with trailing sentences
\* of the earlier one that amount to at least the overlap.
C18_AsStated ==
  IsCall(call, "_chunk_text") =>
    \A i \in 1..Len(call[1].ret) :
      (i < Len(call[1].ret) /\ call[1].ret[i].page = call[1].ret[i + 1].page
         /\ call[1].ret[i].char_count > call[1].settings.chunk_overlap)
      => LET carried == Carried(call[1].ret[i], call[1].ret[i + 1])
         IN /\ IsSuffix(carried, call[1].ret[i].text)
            /\ JoinedLen(carried) >= call[1].settings.chunk_overlap

\* C18: of two consecutive chunks of a page, the later one begins with the
\* longest run of trailing sentences of the earlier one whose lengths add up
\* to at most the overlap (no sentence when the last one alone is longer),
\* and goes on with at least one new sentence.
C18_OverlapAtMostBudget ==
  IsCall(call, "_chunk_text") =>
    \A i \in 1..Len(call[1].ret) :
      (i < Len(call[1].ret) /\ call[1].ret[i].page = call[1].ret[i + 1].page)
      => LET a == call[1].ret[i]
             b == call[1].ret[i + 1]
             carried == Carried(a, b)
             n == Len(carried)
         IN /\ IsSuffix(carried, a.text)
            /\ SumSeq(carried) <= call[1].settings.chunk_overlap
            /\ \/ n = Len(a.text)
               \/ SumSeq(carried) + a.text[Len(a.text) - n].len
                    > call[1].settings.chunk_overlap
            /\ Fresh(a, b) # <<>>

\* The earlier chunk is 951 characters long, the overlap is 200, and the
\* later chunk begins with the one trailing sentence of 150 characters.
C18_Witness ==
  /\ IsCall(call, "_chunk_text")
  /\ call[1].settings = DefaultSettings
  /\ call[1].text_content = Pages(<< <<800, 150, 900>> >>)
  /\ Len(call[1].ret) = 2
  /\ call[1].ret[1].char_count = 951
  /\ Carried(call[1].ret[1], call[1].ret[2]) = << [page |-> 1, id |-> 2, len |-> 150] >>

\* What is left of the chunks cs when each gives up what it carries over
\* from the chunk before it, concatenated.
RECURSIVE FreshFrom(_, _)
FreshFrom(cs, i) ==
  IF i > Len(cs) THEN <<>>
  ELSE (IF i = 1 THEN cs[1].text ELSE Fresh(cs[i - 1], cs[i])) \o FreshFrom(cs, i + 1)

\* C19: for every page, the chunks of the page without the sentences each
\* carries over from its predecessor, concatenated in order, are the page's
\* sentences: none lost, none reordered, the last partial chunk emitted.
C19_ChunksReconstructPage ==
  IsCall(call, "_chunk_text") =>
    \A p \in 1..Len(call[1].text_content) :
      LET page_data == call[1].text_content[p]
          cs == ChunksOfPage(call[1].ret, page_data.page)
      IN /\ FreshFrom(cs, 1) = page_data.sentences
         /\ \A i \in 2..Len(cs) : IsSuffix(Carried(cs[i - 1], cs[i]), cs[i - 1].text)
         /\ cs # <<>>
         /\ cs[Len(cs)].text[Len(cs[Len(cs)].text)]
              = page_data.sentences[Len(page_data.sentences)]

\* Two pages; the second chunk of the first page carries a sentence over and
\* the last chunk of each page is a partial one.
C19_Witness ==
  /\ IsCall(call, "_chunk_text")
  /\ call[1].settings = DefaultSettings
  /\ call[1].text_content = Pages(<< <<150, 900>>, <<900, 150>> >>)
  /\ Len(call[1].ret) = 4
  /\ Len(call[1].ret[2].text) = 2
  /\ call[1].ret[4].char_count = 150

\* C20: the chunks of a page carry the indices 0, 1, 2, ... in the order of
\* the output, the index starts at 0 again on every page, the pages come in
\* their order, and a chunk holds sentences of its own page only.
C20_IndicesPerPage ==
  IsCall(call, "_chunk_text") =>
    LET ret == call[1].ret
        tc == call[1].text_content
    IN /\ \A p \in 1..Len(tc) :
            LET cs == ChunksOfPage(ret, tc[p].page)
            IN \A j \in 1..Len(cs) : cs[j].chunk_index = j - 1
       /\ \A i \in 1..Len(ret) :
            /\ \E p \in 1..Len(tc) : tc[p].page = ret[i].page
            /\ \A j \in 1..Len(ret[i].text) : ret[i].text[j].page = ret[i].page
            /\ i < Len(ret) => ret[i].page <= ret[i + 1].page
            /\ (i < Len(ret) /\ ret[i].page = ret[i + 1].page)
                 => ret[i + 1].chunk_index = ret[i].chunk_index + 1
            /\ (i < Len(ret) /\ ret[i].page # ret[i + 1].page)
                 => ret[i + 1].chunk_index = 0

\* Two pages of two chunks each: indices 0, 1, 0, 1.
C20_Witness ==
  /\ IsCall(call, "_chunk_text")
  /\ call[1].settings = DefaultSettings
  /\ call[1].text_content = Pages(<< <<900, 150>>, <<800, 150, 900>> >>)
  /\ [i \in 1..Len(call[1].ret) |-> call[1].ret[i].chunk_index] = <<0, 1, 0, 1>>
  /\ [i \in 1..Len(call[1].ret) |-> call[1].ret[i].page] = <<1, 1, 2, 2>>

\* -------------------------------------------------------------- normalizer
\* C21 as stated: _parse_amount gives a negative amount when the text is
\* wrapped in parentheses or, without currency signs, commas and
\* parentheses, starts with a minus sign (also when both hold); a text with
\* neither gives a positive amount, and a text that is no number gives None.
C21_AsStated ==
  IsCall(call, "_parse_amount") =>
    LET amount_str == call[1].amount_str
        wrapped == Head(amount_str) = "(" /\ amount_str[Len(amount_str)] = ")"
        cleaned == SelectSeq(amount_str, LAMBDA c : c \notin {"$", ",", "(", ")"})
        minus == cleaned # <<>> /\ Head(cleaned) = "-"
        ret == call[1].ret
    IN /\ (ret # None /\ (wrapped \/ minus)) => ret[1] < 0
       /\ (ret # None /\ ~wrapped /\ ~minus) => ret[1] > 0
       /\ (\E i \in 1..Len(amount_str) : amount_str[i] = "x") => ret = None
       /\ (\A i \in 1..Len(cleaned) : IsDigit(cleaned[i]) \/ (i = 1 /\ minus))
            /\ (\E i \in 1..Len(cleaned) : IsDigit(cleaned[i]))
          => ret # None

\* C22: validate_and_clean_data returns the records that have a date and an
\* amount, in their order and as they were, whatever the sign of the amount;
\* validating the result again changes nothing.
C22_ValidatorKeepsDatedAmounts ==
  IsCall(call, "validate_and_clean_data") =>
    LET data == call[1].data
        ret == call[1].ret
        complete == { i \in 1..Len(data) : data[i].date # None /\ data[i].amount # None }
    IN /\ Len(ret) = Cardinality(complete)
       /\ \A j \in 1..Len(ret) :
            \E i \in complete :
              /\ ret[j] = data[i]
              /\ Cardinality({ h \in complete : h < i }) = j - 1
       /\ call[1].again = ret

\* A capital call of amount zero is kept, the record without a date goes.
C22_Witness ==
  /\ IsCall(call, "validate_and_clean_data")
  /\ call[1].table_type = "capital_calls"
  /\ call[1].data =
       << [kind |-> "capital_calls", date |-> Some("2023-01-15"), amount |-> Some(0)],
          [kind |-> "capital_calls", date |-> None, amount |-> Some(1000)] >>
  /\ call[1].ret =
       << [kind |-> "capital_calls", date |-> Some("2023-01-15"), amount |-> Some(0)] >>

\* The call of extract_data_from_text found no client, or the provider call
\* raised, or its reply was not JSON.
FallbackFailed(d) ==
  llm_outcome[d] \in {Some("no_client"), Some("call_raises"), Some("bad_json")}

\* C23: when the LLM client is unavailable, the provider call fails or the
\* reply is not JSON, extract_data_from_text returns empty capital calls and
\* distributions without raising; the run saves and counts nothing for the
\* fallback and goes on to the text extraction.  The fallback always returns
\* empty adjustments and never changes stats.adjustments.
C23_FailedFallbackIsEmpty ==
  [][\A d \in Docs :
       /\ llm_calls'[d] # llm_calls[d] =>
            /\ llm_data'[d].adjustments = <<>>
            /\ FallbackFailed(d)' =>
                 /\ llm_data'[d].capital_calls = <<>>
                 /\ llm_data'[d].distributions = <<>>
                 /\ exc'[d] = None
                 /\ pc'[d] = "llm_save_calls"
       /\ (pc[d] \in {"llm_save_calls", "llm_save_dists", "llm_except"} /\ pc'[d] # pc[d]) =>
            /\ stats'[d].adjustments = stats[d].adjustments
            /\ FallbackFailed(d) =>
                 /\ pc'[d] = IF pc[d] = "llm_save_calls" THEN "llm_save_dists"
                             ELSE "extract_text"
                 /\ stats'[d] = stats[d]
                 /\ txns' = txns]_vars

\* A run whose provider reply was not JSON has chunked its text and ended
\* completed.
C23_Witness ==
  \E d \in Docs :
    /\ llm_client[d] /\ llm_outcome[d] = Some("bad_json")
    /\ Ended(d) /\ status[d] = "completed"
    /\ chunks[d] # <<>>

\* C24 as stated: after an initialization that completed, whatever the
\* configuration was before, the embedding column has the dimension of the
\* vectors the configured provider produces.
C24_AsStated ==
  (IsCall(call, "_ensure_extension") /\ call[1].ok) =>
    schema.table = Some(EmbeddingDimension(call[1].settings))

\* C27: after a store initialization that completes without error the index
\* exists exactly when the initialization counted more than 100 rows; with
\* 100 rows or fewer there is no index afterwards, even if an earlier
\* initialization had created one.
C27_IndexIffMoreThan100Rows ==
  (IsCall(call, "_ensure_extension") /\ call[1].ok) =>
    /\ schema.index <=> call[1].count > 100
    /\ call[1].count <= 100 => ~schema.index

\* The index an earlier initialization created is gone after one that
\* counted 100 rows or fewer.
C27_Witness ==
  /\ IsCall(call, "_ensure_extension") /\ call[1].ok
  /\ call[1].had_index
  /\ call[1].count <= 100
  /\ ~schema.index

\* The step is one of the run of document d.
StepOf(d) ==
  pc'[d] # pc[d] \/ next_chunk'[d] # next_chunk[d] \/ tables'[d] # tables[d]

\* C25: under every interleaving of two runs for different documents on the
\* shared stores, a step of one run inserts only rows that carry its own
\* document_id and fund_id (the transaction rows, which have no document
\* column, its fund_id), removes no row of either store, whether it fails or
\* not, and leaves the other document's status, error message and result
\* alone.
C25_RunsDoNotInterfere ==
  [][\A d \in Docs :
       StepOf(d) =>
         /\ \/ rows' = rows
            \/ /\ Len(rows') = Len(rows) + 1
               /\ IsPrefix(rows, rows')
               /\ LET r == rows'[Len(rows')]
                  IN /\ r.document_id = d /\ r.fund_id = FundOf(d)
                     /\ r.metadata.document_id = d /\ r.metadata.fund_id = FundOf(d)
         /\ IsPrefix(txns, txns')
         /\ \A i \in (Len(txns) + 1)..Len(txns') : txns'[i].fund_id = FundOf(d)
         /\ \A e \in Docs \ {d} :
              /\ status'[e] = status[e]
              /\ error_message'[e] = error_message[e]
              /\ result'[e] = result[e]]_vars

\* Both runs have ended: the first failed on its second chunk, the second
\* completed; the rows of both are in the table, interleaved.
C25_Witness ==
  /\ Ended(1) /\ Ended(2)
  /\ status[1] = "failed" /\ status[2] = "completed"
  /\ Len(rows) = 3
  /\ rows[1].document_id = 2 /\ rows[2].document_id = 1 /\ rows[3].document_id = 2
  /\ \E i, j \in 1..Len(txns) : txns[i].fund_id = FundOf(1) /\ txns[j].fund_id = FundOf(2)

\* The rows of q are rows of p, as they were and in their order.
RowsKept(p, q) ==
  q = SelectSeq(p, LAMBDA r : \E i \in 1..Len(q) : q[i] = r)

\* C26: a row of the vector store is never modified after its insert and is
\* removed only by clear.  A step of process_document, add_document,
\* similarity_search, the store initialization and delete_document leave the
\* rows that exist as they are and at most append rows; a step that removes
\* a row is a call of clear, which leaves the remaining rows as they were.
C26_RowsOnlyAddedOrCleared ==
  [][/\ (\E d \in Docs : StepOf(d)) => IsPrefix(rows, rows')
     /\ ( /\ call' # None
          /\ call'[1].fn \in {"add_document", "similarity_search",
                              "_ensure_extension", "delete_document"} )
          => IsPrefix(rows, rows')
     /\ ~IsPrefix(rows, rows') =>
          /\ IsCall(call', "clear")
          /\ RowsKept(rows, rows')
          /\ Len(rows') < Len(rows)]_vars

\* Document 1 has been ingested again and then deleted: the chunk of its
\* first ingestion and the chunks of the second are all in the table.
C26_Witness ==
  /\ IsCall(call, "delete_document") /\ call[1].document_id = 1
  /\ Ended(1) /\ Len(chunks[1]) = 2
  /\ Len(RunRows(rows, 1)) = 3
  /\ rows[1] = ReingestedRows[1]

\* The categories in the order their keywords are looked for.
CategoryOrder ==
  << [keywords |-> {"recallable", "recalled"}, category |-> "recallable_distribution"],
     [keywords |-> {"capital call"}, category |-> "capital_call_adjustment"],
     [keywords |-> {"contribution"}, category |-> "contribution_adjustment"],
     [keywords |-> {"fee"}, category |-> "fee_adjustment"],
     [keywords |-> {"expense"}, category |-> "expense_adjustment"] >>

\* The lower-cased text of the type cell of a parsed adjustment row.
TypeCellWords(headers, row) ==
  LET idx == find_column_index(headers, {"type", "adjustment type"})
  IN IF idx = None THEN <<>> ELSE CellWords(row[idx[1]])

\* C28: the category of an adjustment record is that of the first entry, in
\* the order recallable/recalled, capital call, contribution, fee, expense,
\* with a keyword in the lower-cased type cell, and other when there is
\* none; is_contribution_adjustment is true exactly when the type cell
\* contains 'capital call' or 'contribution'.
C28_CategoryIsFirstMatch ==
  (IsCall(call, "parse_adjustment_table") /\ call[1].ret # None) =>
    LET adj_type == TypeCellWords(call[1].headers, call[1].row)
        matches(i) == \E k \in CategoryOrder[i].keywords : Occurs(k, adj_type)
        record == call[1].ret[1]
    IN /\ \A i \in 1..Len(CategoryOrder) :
            (matches(i) /\ \A j \in 1..(i - 1) : ~matches(j))
              => record.category = CategoryOrder[i].category
       /\ (\A i \in 1..Len(CategoryOrder) : ~matches(i)) => record.category = "other"
       /\ record.is_contribution_adjustment
            <=> (Occurs("capital call", adj_type) \/ Occurs("contribution", adj_type))

\* A type that names a contribution and a fee is a contribution adjustment.
C28_Witness ==
  /\ IsCall(call, "parse_adjustment_table")
  /\ call[1].row[2] = Some("Capital Contribution Fee")
  /\ call[1].ret # None
  /\ call[1].ret[1].category = "contribution_adjustment"
  /\ call[1].ret[1].is_contribution_adjustment

\* The sentences at the end of q, from none to all of them.
Suffixes(q) == { SubSeq(q, k, Len(q)) : k \in 1..(Len(q) + 1) }

\* C29: when _chunk_text closes a chunk, the next chunk of the page is
\* seeded with the longest suffix of the closed chunk's sentences whose
\* lengths add up to at most the overlap budget; the seed is empty when the
\* last sentence alone exceeds the budget; after the seed the next chunk
\* holds the sentence that follows the closed chunk, so every chunk after
\* the first of a page has a sentence that is not carried over.
C29_SeedIsLongestFittingSuffix ==
  IsCall(call, "_chunk_text") =>
    \A p \in 1..Len(call[1].text_content) :
      LET cs == ChunksOfPage(call[1].ret, call[1].text_content[p].page)
          budget == call[1].settings.chunk_overlap
      IN \A i \in 1..(Len(cs) - 1) :
           LET closed == cs[i].text
               next == cs[i + 1].text
               fitting == { q \in Suffixes(closed) : SumSeq(q) <= budget }
           IN \E seed \in fitting :
                /\ \A q \in fitting : Len(q) <= Len(seed)
                /\ closed[Len(closed)].len > budget => seed = <<>>
                /\ IsPrefix(seed, next)
                /\ Len(next) > Len(seed)
                /\ next[Len(seed) + 1].id = closed[Len(closed)].id + 1

\* A chunk of 700, 90 and 90 characters is closed with the default budget of
\* 200: the next chunk is seeded with both sentences of 90.
C29_Witness ==
  /\ IsCall(call, "_chunk_text")
  /\ call[1].settings = DefaultSettings
  /\ call[1].text_content = Pages(<< <<700, 90, 90, 900>> >>)
  /\ Len(call[1].ret) = 2
  /\ Len(call[1].ret[1].text) = 3
  /\ call[1].ret[2].text = SubSeq(call[1].ret[1].text, 2, 3)
                             \o << [page |-> 1, id |-> 4, len |-> 900] >>

\* The records of a category the run of document d has committed.
Committed(d, kind) ==
  Cardinality({ i \in 1..Len(txns) :
                  txns[i].fund_id = FundOf(d) /\ txns[i].kind = kind })

CountsMatch(d) ==
  /\ stats[d].capital_calls = Committed(d, "capital_calls")
  /\ stats[d].distributions = Committed(d, "distributions")
  /\ stats[d].adjustments = Committed(d, "adjustments")

\* C30: at every point of a run, and in the result it returns, each of
\* stats.capital_calls, stats.distributions and stats.adjustments is the
\* number of records of that category the run has committed, from tables
\* and from the fallback; a step that handles a save that raised changes no
\* count, and no count ever decreases.
C30_CountsAreCommittedRecords ==
  [][\A d \in Docs :
       /\ CountsMatch(d)'
       /\ result'[d] # None =>
            /\ result'[d][1].stats.capital_calls = Committed(d, "capital_calls")'
            /\ result'[d][1].stats.distributions = Committed(d, "distributions")'
            /\ result'[d][1].stats.adjustments = Committed(d, "adjustments")'
       /\ stats'[d].capital_calls >= stats[d].capital_calls
       /\ stats'[d].distributions >= stats[d].distributions
       /\ stats'[d].adjustments >= stats[d].adjustments
       /\ pc'[d] \in {"table_except", "llm_except"} =>
            /\ CountsMatch(d) => txns' = txns
            /\ stats'[d] = stats[d]]_vars

\* A run has returned: one table was saved and counted, the save of another
\* raised, and the count is that of the saved table.
C30_Witness ==
  \E d \in Docs :
    /\ result[d] # None
    /\ result[d][1].stats.capital_calls = 2
    /\ Committed(d, "capital_calls") = 2
    /\ \E i \in 1..Len(stats[d].errors) : stats[d].errors[i].exc = "save"

====
